---------------------------- MODULE Spec2Model ----------------------------
(***************************************************************************)
(* A model of the food logger's calculation core:                          *)
(*   src/src/food_logger/food_logger_service.py  FoodLoggerService         *)
(*   src/src/food_logger/gemini_client.py        GeminiClient.analyze_food *)
(*   src/src/food_logger/core.py                 UnitConverter,            *)
(*                                               NutritionCalculator       *)
(*                                               FoodLoggerCore,           *)
(*                                               MockFoodAnalyzer,         *)
(*                                               MockFoodDatabase          *)
(*   src/src/food_logger/models.py               MealAnalysis.from_dict    *)
(*   src/src/food_logger/output_writer.py        CsvOutputWriter,          *)
(*                                               SheetsOutputWriter        *)
(*   src/src/food_logger/sheets_client.py        SheetsClient              *)
(*                                                                         *)
(* Python values are modelled as follows.                                  *)
(*   - A number is an exact rational [t |-> "float", n, d] in lowest terms *)
(*     (d > 0).  IEEE rounding of Python floats is not modelled.           *)
(*   - A string used as a number, and None, carry their type in t.         *)
(*   - A dict is a function whose DOMAIN is the set of its keys; a value   *)
(*     of any other shape (list, str) met where a dict is expected is the  *)
(*     one-key function [py_type |-> ...].                                 *)
(*   - The outcome of a call is [kind |-> "return", ...] or                *)
(*     [kind |-> "raise", exc |-> <exception class>], with the lines the   *)
(*     call printed in out.                                                *)
(***************************************************************************)
EXTENDS Integers, Sequences, FiniteSets, TLC

VARIABLES call, result, sink, database, session

vars == <<call, result, sink, database, session>>

----------------------------------------------------------------------------
(* A Python local variable: F applied to the value of e, with e evaluated *)
(* once, at the assignment.                                                *)

Let(e, F(_)) == CHOOSE r \in {F(v) : v \in {e}} : TRUE

----------------------------------------------------------------------------
(* Exact rational arithmetic standing for Python float arithmetic.         *)

RECURSIVE GCD(_, _)
GCD(a, b) == IF b = 0 THEN a ELSE Let(a % b, LAMBDA r : GCD(b, r))

Abs(x) == IF x < 0 THEN -x ELSE x

\* n/d in lowest terms with a positive denominator (d # 0).
Float(n, d) ==
    Let(<<n, d>>, LAMBDA f :
        LET s == IF f[2] < 0 THEN -1 ELSE 1
        IN  Let(GCD(Abs(f[1]), Abs(f[2])), LAMBDA g :
                [t |-> "float", n |-> (s * f[1]) \div g,
                 d |-> (s * f[2]) \div g]))

Num(n) == Float(n, 1)

PyStr == [t |-> "str", n |-> 0, d |-> 1]

PyNone == [t |-> "NoneType", n |-> 0, d |-> 1]

IsNum(x) == x.t = "float"

Mul(x, y) == Float(x.n * y.n, x.d * y.d)

\* y # 0
Div(x, y) == Float(x.n * y.d, x.d * y.n)

Add(x, y) == Float(x.n * y.d + y.n * x.d, x.d * y.d)

Gt0(x) == x.n > 0

IsZero(x) == x.n = 0

----------------------------------------------------------------------------
(* Outcomes of a call.                                                     *)

Return(v, out) == [kind |-> "return", val |-> v, exc |-> "", out |-> out]

Raise(e, out) == [kind |-> "raise", val |-> Num(0), exc |-> e, out |-> out]

IsDict(x) == "py_type" \notin DOMAIN x

NotADict(ty) == [py_type |-> ty]

\* dict.get(key, default)
Get(dict, key, default) == IF key \in DOMAIN dict THEN dict[key] ELSE default

----------------------------------------------------------------------------
(* FoodLoggerService.UNIT_CONVERSIONS                                      *)

UNIT_CONVERSIONS ==
    [g |-> Num(1), kg |-> Num(1000), oz |-> Float(2835, 100),
     lb |-> Float(45359, 100),
     ml |-> Num(1), l |-> Num(1000), cup |-> Num(240), tbsp |-> Num(15),
     tsp |-> Num(5),
     piece |-> Num(1), slice |-> Num(1), medium |-> Num(1),
     large |-> Num(1), small |-> Num(1), scoop |-> Num(1)]

WARN_CONVERT == "Warning: Cannot convert"

WARN_SCALING == "Warning: Error calculating scaling factor"

WARN_FOOD == "Warning: Error processing food"

ERR_MEAL == "Error analyzing meal"

----------------------------------------------------------------------------
(* FoodLoggerService.calculate_scaling_factor: how much the user consumed  *)
(* relative to the standard serving.  KeyError, ValueError and             *)
(* ZeroDivisionError are caught and give 1.0; a TypeError (a non-numeric   *)
(* amount, a serving that is not a dict) is not caught and propagates.     *)

\* scaling_factor_body with the user's amount left unconverted.
scaling_factor_body_unconverted(standard_amount, standard_unit, user_amount, user_unit) ==
    IF standard_unit \in DOMAIN UNIT_CONVERSIONS
       /\ user_unit \in DOMAIN UNIT_CONVERSIONS
    THEN IF ~IsNum(standard_amount) \/ ~IsNum(user_amount)
         THEN Raise("TypeError", <<>>)
         ELSE LET standard_base ==
                      Mul(standard_amount, UNIT_CONVERSIONS[standard_unit])
                  user_base == user_amount
              IN  IF Gt0(standard_base)
                  THEN Return(Div(user_base, standard_base), <<>>)
                  ELSE Return(Num(1), <<>>)
    ELSE IF standard_unit = user_unit
    THEN IF ~IsNum(standard_amount)
         THEN Raise("TypeError", <<>>)
         ELSE IF Gt0(standard_amount)
         THEN IF ~IsNum(user_amount)
              THEN Raise("TypeError", <<>>)
              ELSE Return(Div(user_amount, standard_amount), <<>>)
         ELSE Return(Num(1), <<>>)
    ELSE IF ~IsNum(standard_amount)
         THEN Raise("TypeError", <<WARN_CONVERT>>)
         ELSE IF Gt0(standard_amount)
         THEN IF ~IsNum(user_amount)
              THEN Raise("TypeError", <<WARN_CONVERT>>)
              ELSE Return(Div(user_amount, standard_amount), <<WARN_CONVERT>>)
         ELSE Return(Num(1), <<WARN_CONVERT>>)

\* The body of the try block once the four keys have been read.
scaling_factor_body(standard_amount, standard_unit, user_amount, user_unit) ==
    IF standard_unit \in DOMAIN UNIT_CONVERSIONS
       /\ user_unit \in DOMAIN UNIT_CONVERSIONS
    THEN IF ~IsNum(standard_amount) \/ ~IsNum(user_amount)
         THEN Raise("TypeError", <<>>)
         ELSE LET standard_base ==
                      Mul(standard_amount, UNIT_CONVERSIONS[standard_unit])
                  user_base == Mul(user_amount, UNIT_CONVERSIONS[user_unit])
              IN  IF Gt0(standard_base)
                  THEN Return(Div(user_base, standard_base), <<>>)
                  ELSE Return(Num(1), <<>>)
    ELSE IF standard_unit = user_unit
    THEN IF ~IsNum(standard_amount)
         THEN Raise("TypeError", <<>>)
         ELSE IF Gt0(standard_amount)
         THEN IF ~IsNum(user_amount)
              THEN Raise("TypeError", <<>>)
              ELSE Return(Div(user_amount, standard_amount), <<>>)
         ELSE Return(Num(1), <<>>)
    ELSE IF ~IsNum(standard_amount)
         THEN Raise("TypeError", <<WARN_CONVERT>>)
         ELSE IF Gt0(standard_amount)
         THEN IF ~IsNum(user_amount)
              THEN Raise("TypeError", <<WARN_CONVERT>>)
              ELSE Return(Div(user_amount, standard_amount), <<WARN_CONVERT>>)
         ELSE Return(Num(1), <<WARN_CONVERT>>)

calculate_scaling_factor(standard_serving, user_consumed) ==
    IF ~IsDict(standard_serving) THEN Raise("TypeError", <<>>)
    ELSE IF "amount" \notin DOMAIN standard_serving
            \/ "unit" \notin DOMAIN standard_serving
    THEN Return(Num(1), <<WARN_SCALING>>)
    ELSE IF ~IsDict(user_consumed) THEN Raise("TypeError", <<>>)
    ELSE IF "amount" \notin DOMAIN user_consumed
            \/ "unit" \notin DOMAIN user_consumed
    THEN Return(Num(1), <<WARN_SCALING>>)
    ELSE scaling_factor_body(standard_serving["amount"],
                             standard_serving["unit"],
                             user_consumed["amount"], user_consumed["unit"])

----------------------------------------------------------------------------
(* FoodLoggerService.scale_nutrition                                       *)

nutrition_keys ==
    <<"calories", "protein_g", "carbs_g", "fat_g", "fiber_g", "sugar_g",
      "sodium_mg", "potassium_mg", "vitamin_c_mg", "calcium_mg", "iron_mg">>

NutritionKeySet == {nutrition_keys[i] : i \in DOMAIN nutrition_keys}

\* scale_nutrition scaling only the fields the source has.
scale_nutrition_present_only(standard_serving, scaling_factor) ==
    IF \E key \in NutritionKeySet :
           ~IsNum(Get(standard_serving, key, Num(0)))
    THEN Raise("TypeError", <<>>)
    ELSE Return([key \in NutritionKeySet \cap DOMAIN standard_serving |->
                    Mul(standard_serving[key], scaling_factor)],
                <<>>)

\* scale_nutrition keeping only the whole part of each scaled value.
scale_nutrition_whole(standard_serving, scaling_factor) ==
    IF \E key \in NutritionKeySet :
           ~IsNum(Get(standard_serving, key, Num(0)))
    THEN Raise("TypeError", <<>>)
    ELSE Return([key \in NutritionKeySet |->
                    Let(Mul(Get(standard_serving, key, Num(0)),
                            scaling_factor),
                        LAMBDA scaled : Num(scaled.n \div scaled.d))],
                <<>>)

\* base_value * scaling_factor raises TypeError when base_value is a str
\* or None (scaling_factor is a float).
scale_nutrition(standard_serving, scaling_factor) ==
    IF \E key \in NutritionKeySet :
           ~IsNum(Get(standard_serving, key, Num(0)))
    THEN Raise("TypeError", <<>>)
    ELSE Return([key \in NutritionKeySet |->
                    Mul(Get(standard_serving, key, Num(0)), scaling_factor)],
                <<>>)

\* The caller's standard_serving dict once scale_nutrition has returned:
\* the function reads it with get and writes only to scaled_nutrition.
scale_nutrition_argument_after(standard_serving, scaling_factor) ==
    standard_serving

----------------------------------------------------------------------------
(* FoodLoggerService.process_raw_foods                                     *)

ReturnNone(out) == [kind |-> "none", val |-> Num(0), exc |-> "", out |-> out]

\* process_raw_food reading the record's fields with get, so that a record
\* without food_name, confidence_score or source_notes is kept.
process_raw_food_lenient(raw_food) ==
    IF "standard_serving" \notin DOMAIN raw_food
       \/ "user_consumed" \notin DOMAIN raw_food
    THEN Return(<<>>, <<WARN_FOOD>>)
    ELSE
    LET standard_serving == raw_food["standard_serving"]
        user_consumed == raw_food["user_consumed"]
    IN  Let(calculate_scaling_factor(standard_serving, user_consumed),
            LAMBDA sf :
        IF sf.kind = "raise" THEN sf
        ELSE
        LET scaling_factor == sf.val
        IN  Let(scale_nutrition(standard_serving, scaling_factor),
                LAMBDA sn :
            IF sn.kind = "raise" THEN Raise(sn.exc, sf.out)
            ELSE Return(<<[food_name |-> Get(raw_food, "food_name", "unknown"),
                           standard_serving |-> standard_serving,
                           user_consumed |-> user_consumed,
                           calculated_nutrition |-> sn.val,
                           scaling_factor |-> scaling_factor,
                           confidence_score |->
                               Get(raw_food, "confidence_score", Num(1)),
                           source_notes |->
                               Get(raw_food, "source_notes", "")]>>,
                        sf.out)))

\* process_raw_food keeping only the scaled fields the source has.
process_raw_food_partial(raw_food) ==
    IF "standard_serving" \notin DOMAIN raw_food
       \/ "user_consumed" \notin DOMAIN raw_food
    THEN Return(<<>>, <<WARN_FOOD>>)
    ELSE
    LET standard_serving == raw_food["standard_serving"]
        user_consumed == raw_food["user_consumed"]
    IN  Let(calculate_scaling_factor(standard_serving, user_consumed),
            LAMBDA sf :
        IF sf.kind = "raise" THEN sf
        ELSE
        LET scaling_factor == sf.val
        IN  Let(scale_nutrition(standard_serving, scaling_factor),
                LAMBDA sn :
            IF sn.kind = "raise" THEN Raise(sn.exc, sf.out)
            ELSE IF "food_name" \notin DOMAIN raw_food
                    \/ "confidence_score" \notin DOMAIN raw_food
                    \/ "source_notes" \notin DOMAIN raw_food
            THEN Return(<<>>, sf.out \o <<WARN_FOOD>>)
            ELSE Return(<<[food_name |-> raw_food["food_name"],
                           standard_serving |-> standard_serving,
                           user_consumed |-> user_consumed,
                           calculated_nutrition |->
                               [key \in NutritionKeySet
                                         \cap DOMAIN standard_serving |->
                                   sn.val[key]],
                           scaling_factor |-> scaling_factor,
                           confidence_score |-> raw_food["confidence_score"],
                           source_notes |-> raw_food["source_notes"]]>>,
                        sf.out)))

\* One iteration of the loop: <<food>> when the record is appended, <<>>
\* when a KeyError made the loop continue; an escaping TypeError is raised.
process_raw_food(raw_food) ==
    IF "standard_serving" \notin DOMAIN raw_food
       \/ "user_consumed" \notin DOMAIN raw_food
    THEN Return(<<>>, <<WARN_FOOD>>)
    ELSE
    LET standard_serving == raw_food["standard_serving"]
        user_consumed == raw_food["user_consumed"]
    IN  Let(calculate_scaling_factor(standard_serving, user_consumed),
            LAMBDA sf :
        IF sf.kind = "raise" THEN sf
        ELSE
        LET scaling_factor == sf.val
        IN  Let(scale_nutrition(standard_serving, scaling_factor),
                LAMBDA sn :
            IF sn.kind = "raise" THEN Raise(sn.exc, sf.out)
            ELSE IF "food_name" \notin DOMAIN raw_food
                    \/ "confidence_score" \notin DOMAIN raw_food
                    \/ "source_notes" \notin DOMAIN raw_food
            THEN Return(<<>>, sf.out \o <<WARN_FOOD>>)
            ELSE Return(<<[food_name |-> raw_food["food_name"],
                           standard_serving |-> standard_serving,
                           user_consumed |-> user_consumed,
                           calculated_nutrition |-> sn.val,
                           scaling_factor |-> scaling_factor,
                           confidence_score |-> raw_food["confidence_score"],
                           source_notes |-> raw_food["source_notes"]]>>,
                        sf.out)))

\* The loop of process_raw_foods putting each new food before the others.
RECURSIVE process_raw_foods_loop_prepending(_, _, _, _)
process_raw_foods_loop_prepending(raw_foods, i, processed_foods, out) ==
    IF i > Len(raw_foods) THEN Return(processed_foods, out)
    ELSE Let(process_raw_food(raw_foods[i]), LAMBDA r :
             IF r.kind = "raise" THEN Raise(r.exc, out \o r.out)
             ELSE Let(<<r.val \o processed_foods, out \o r.out>>, LAMBDA a :
                      process_raw_foods_loop_prepending(raw_foods, i + 1,
                                                        a[1], a[2])))

RECURSIVE process_raw_foods_loop(_, _, _, _)
process_raw_foods_loop(raw_foods, i, processed_foods, out) ==
    IF i > Len(raw_foods) THEN Return(processed_foods, out)
    ELSE Let(process_raw_food(raw_foods[i]), LAMBDA r :
             IF r.kind = "raise" THEN Raise(r.exc, out \o r.out)
             ELSE Let(<<processed_foods \o r.val, out \o r.out>>, LAMBDA a :
                      process_raw_foods_loop(raw_foods, i + 1, a[1], a[2])))

\* process_raw_foods with its list kept on the service between calls: it
\* starts from the foods of the invocation before.
process_raw_foods_kept(raw_foods) ==
    LET kept == IF session # <<>>
                   /\ session[Len(session)].outcome.kind = "return"
                THEN session[Len(session)].foods
                ELSE <<>>
    IN  process_raw_foods_loop(raw_foods, 1, kept, <<>>)

\* processed_foods = [] (line 133), then the loop over raw_foods
process_raw_foods(raw_foods) == process_raw_foods_loop(raw_foods, 1, <<>>, <<>>)

----------------------------------------------------------------------------
(* FoodLoggerService.analyze_meal.  The analyzer's answer is              *)
(* [kind |-> "list", foods |-> ...] or [kind |-> "none"] (analyze_food    *)
(* returned None) or [kind |-> "raise"].  The timestamp is left out of    *)
(* meal_analysis; stamped adds it where the clock is part of the state.    *)

\* SumNutrition with the total assigned instead of accumulated.
SumNutrition_assigned(processed_foods, key, n) ==
    IF n = 0 THEN Num(0)
    ELSE Get(processed_foods[n].calculated_nutrition, key, Num(0))

RECURSIVE SumNutrition(_, _, _)
\* totals[key] += nutrition.get(key, 0) over the first n foods, from 0
SumNutrition(processed_foods, key, n) ==
    IF n = 0 THEN Num(0)
    ELSE Let(SumNutrition(processed_foods, key, n - 1), LAMBDA total :
             Add(total,
                 Get(processed_foods[n].calculated_nutrition, key, Num(0))))

\* SumConfidence with the sum assigned instead of accumulated.
SumConfidence_assigned(processed_foods, n) ==
    IF n = 0 THEN Num(0)
    ELSE processed_foods[n].confidence_score

RECURSIVE SumConfidence(_, _)
SumConfidence(processed_foods, n) ==
    IF n = 0 THEN Num(0)
    ELSE Let(SumConfidence(processed_foods, n - 1), LAMBDA total :
             Add(total, processed_foods[n].confidence_score))

meal_analysis(processed_foods) ==
    LET total(key) == SumNutrition(processed_foods, key, Len(processed_foods))
    IN  [processed_foods |-> processed_foods,
         total_calories |-> total("calories"),
         total_protein |-> total("protein_g"),
         total_carbs |-> total("carbs_g"),
         total_fat |-> total("fat_g"),
         total_fiber |-> total("fiber_g"),
         total_sugar |-> total("sugar_g"),
         total_sodium |-> total("sodium_mg"),
         total_potassium |-> total("potassium_mg"),
         total_vitamin_c |-> total("vitamin_c_mg"),
         total_calcium |-> total("calcium_mg"),
         total_iron |-> total("iron_mg"),
         avg_confidence |->
             Div(SumConfidence(processed_foods, Len(processed_foods)),
                 Num(Len(processed_foods)))]

\* timestamp=datetime.now() (line 210) in the MealAnalysis of an outcome
stamped(outcome, now) ==
    IF outcome.kind = "return"
    THEN [outcome EXCEPT !.val =
             [k \in DOMAIN outcome.val \cup {"timestamp"} |->
                 IF k = "timestamp" THEN now ELSE outcome.val[k]]]
    ELSE outcome

analyze_meal(response) ==
    IF response.kind = "raise" THEN ReturnNone(<<ERR_MEAL>>)
    ELSE IF response.kind = "none" \/ Len(response.foods) = 0
    THEN ReturnNone(<<>>)
    ELSE
    Let(process_raw_foods(response.foods), LAMBDA p :
        IF p.kind = "raise" THEN ReturnNone(p.out \o <<ERR_MEAL>>)
        ELSE IF Len(p.val) = 0 THEN ReturnNone(p.out)
        ELSE IF \E i \in DOMAIN p.val : ~IsNum(p.val[i].confidence_score)
        THEN ReturnNone(p.out \o <<ERR_MEAL>>)
        ELSE Return(meal_analysis(p.val), p.out))

----------------------------------------------------------------------------
(* models.py: NutritionalInfo, ServingSize, ProcessedFood and              *)
(* MealAnalysis.from_dict.  A dataclass constructor called with ** raises  *)
(* TypeError on a missing required field or an unexpected key.             *)

NutritionalInfoFields ==
    {"calories", "protein", "carbs", "fat", "fiber", "sugar", "sodium",
     "potassium", "vitamin_c", "calcium", "iron"}

IsNone(x) == "t" \in DOMAIN x /\ x["t"] = "NoneType"

\* NutritionalInfo(**kwargs): the first four fields are required, the other
\* seven default to 0.0.
NutritionalInfo(kwargs) ==
    IF IsNone(kwargs)
       \/ ~({"calories", "protein", "carbs", "fat"} \subseteq DOMAIN kwargs)
       \/ ~(DOMAIN kwargs \subseteq NutritionalInfoFields)
    THEN Raise("TypeError", <<>>)
    ELSE Return([f \in NutritionalInfoFields |-> Get(kwargs, f, Num(0))],
                <<>>)

\* ServingSize(**kwargs)
ServingSize(kwargs) ==
    IF IsNone(kwargs) \/ DOMAIN kwargs # {"amount", "unit"}
    THEN Raise("TypeError", <<>>)
    ELSE Return([amount |-> kwargs["amount"], unit |-> kwargs["unit"]], <<>>)

\* food_id of a ProcessedFood built without one (None).
NoFoodId == "<None>"

\* One element of the list comprehension of from_dict.
processed_food_from_dict(food) ==
    IF "standard_serving" \notin DOMAIN food
       \/ "size" \notin DOMAIN food["standard_serving"]
    THEN Raise("KeyError", <<>>)
    ELSE
    LET ss == food["standard_serving"]
        size == ServingSize(ss["size"])
    IN  IF size.kind = "raise" THEN size
        ELSE IF "alt_size" \notin DOMAIN ss THEN Raise("KeyError", <<>>)
        ELSE
        LET alt_size ==
                IF IsNone(ss["alt_size"]) \/ DOMAIN ss["alt_size"] = {}
                THEN Return(PyNone, <<>>)
                ELSE ServingSize(ss["alt_size"])
        IN  IF alt_size.kind = "raise" THEN alt_size
            ELSE IF "nutrition" \notin DOMAIN ss THEN Raise("KeyError", <<>>)
            ELSE
            LET nutrition == NutritionalInfo(ss["nutrition"])
            IN  IF nutrition.kind = "raise" THEN nutrition
                ELSE IF "consumed" \notin DOMAIN food
                        \/ "size" \notin DOMAIN food["consumed"]
                THEN Raise("KeyError", <<>>)
                ELSE
                LET c == food["consumed"]
                    csize == ServingSize(c["size"])
                IN  IF csize.kind = "raise" THEN csize
                    ELSE IF "standard_servings" \notin DOMAIN c
                            \/ "nutrition" \notin DOMAIN c
                    THEN Raise("KeyError", <<>>)
                    ELSE
                    LET cnutrition == NutritionalInfo(c["nutrition"])
                        rest == DOMAIN food \ {"standard_serving", "consumed"}
                    IN  IF cnutrition.kind = "raise" THEN cnutrition
                        ELSE IF ~({"food_name", "user_description",
                                   "confidence_score", "source_notes"}
                                      \subseteq rest)
                                \/ ~(rest \subseteq
                                       {"food_name", "user_description",
                                        "confidence_score", "source_notes",
                                        "food_id"})
                        THEN Raise("TypeError", <<>>)
                        ELSE Return(
                            [food_name |-> food["food_name"],
                             user_description |-> food["user_description"],
                             standard_serving |->
                                 [size |-> size.val,
                                  alt_size |-> alt_size.val,
                                  nutrition |-> nutrition.val],
                             consumed |->
                                 [size |-> csize.val,
                                  standard_servings |->
                                      c["standard_servings"],
                                  nutrition |-> cnutrition.val],
                             confidence_score |-> food["confidence_score"],
                             source_notes |-> food["source_notes"],
                             food_id |-> Get(food, "food_id", NoFoodId)],
                            <<>>)

RECURSIVE processed_foods_from_dict(_, _, _)
processed_foods_from_dict(foods, i, processed_foods) ==
    IF i > Len(foods) THEN Return(processed_foods, <<>>)
    ELSE Let(processed_food_from_dict(foods[i]), LAMBDA r :
             IF r.kind = "raise" THEN r
             ELSE Let(Append(processed_foods, r.val), LAMBDA a :
                      processed_foods_from_dict(foods, i + 1, a)))

\* MealAnalysis.from_dict
from_dict(data) ==
    IF "processed_foods" \notin DOMAIN data THEN Raise("KeyError", <<>>)
    ELSE
    Let(processed_foods_from_dict(data["processed_foods"], 1, <<>>),
        LAMBDA processed_foods :
        IF processed_foods.kind = "raise" THEN processed_foods
        ELSE IF "totals" \notin DOMAIN data THEN Raise("KeyError", <<>>)
        ELSE LET totals == NutritionalInfo(data["totals"])
             IN  IF totals.kind = "raise" THEN totals
                 ELSE Return([processed_foods |-> processed_foods.val,
                              totals |-> totals.val], <<>>))

\* asdict of a NutritionalInfo
nutritional_info_asdict(info) ==
    [calories |-> info["calories"], protein |-> info["protein"],
     carbs |-> info["carbs"], fat |-> info["fat"], fiber |-> info["fiber"],
     sugar |-> info["sugar"], sodium |-> info["sodium"],
     potassium |-> info["potassium"], vitamin_c |-> info["vitamin_c"],
     calcium |-> info["calcium"], iron |-> info["iron"]]

\* asdict of a ServingSize; a field that holds None stays None.
serving_size_asdict(size) ==
    IF IsNone(size) THEN PyNone
    ELSE [amount |-> size.amount, unit |-> size.unit]

\* asdict of a ProcessedFood that leaves food_id out.
processed_food_asdict_without_id(food) ==
    [food_name |-> food.food_name,
     user_description |-> food.user_description,
     standard_serving |->
         [size |-> serving_size_asdict(food.standard_serving.size),
          alt_size |-> serving_size_asdict(food.standard_serving.alt_size),
          nutrition |->
              nutritional_info_asdict(food.standard_serving.nutrition)],
     consumed |->
         [size |-> serving_size_asdict(food.consumed.size),
          standard_servings |-> food.consumed.standard_servings,
          nutrition |-> nutritional_info_asdict(food.consumed.nutrition)],
     confidence_score |-> food.confidence_score,
     source_notes |-> food.source_notes]

\* asdict of a ProcessedFood; food_id is copied as it is, None included.
processed_food_asdict(food) ==
    [food_name |-> food.food_name,
     user_description |-> food.user_description,
     standard_serving |->
         [size |-> serving_size_asdict(food.standard_serving.size),
          alt_size |-> serving_size_asdict(food.standard_serving.alt_size),
          nutrition |->
              nutritional_info_asdict(food.standard_serving.nutrition)],
     consumed |->
         [size |-> serving_size_asdict(food.consumed.size),
          standard_servings |-> food.consumed.standard_servings,
          nutrition |-> nutritional_info_asdict(food.consumed.nutrition)],
     confidence_score |-> food.confidence_score,
     source_notes |-> food.source_notes,
     food_id |-> food.food_id]

\* MealAnalysis.to_dict
to_dict(analysis) ==
    [processed_foods |->
         [i \in DOMAIN analysis.processed_foods |->
             processed_food_asdict(analysis.processed_foods[i])],
     totals |-> nutritional_info_asdict(analysis.totals)]

----------------------------------------------------------------------------
(* GeminiClient.analyze_food, array branch: the items of the JSON array    *)
(* are normalised one by one.  A ValueError or TypeError raised for an     *)
(* item is caught in the loop and the item is skipped; anything else, such *)
(* as the AttributeError of .get on a value that is not a dict, reaches    *)
(* the method's except Exception and the whole call returns None.          *)

WARN_PARSE == "Warning: Error parsing food item"

ERR_GEMINI == "Error analyzing food with Gemini"

\* A value .get can be called on.
HasGet(x) == IsDict(x) /\ ~IsNone(x)

\* float(x or default), x a JSON number, a non-numeric string or null
float_or(x, default) ==
    IF IsNone(x) \/ (IsNum(x) /\ IsZero(x)) THEN Return(default, <<>>)
    ELSE IF IsNum(x) THEN Return(x, <<>>)
    ELSE Raise("ValueError", <<>>)

\* The body of the loop: <<food>> when the item is appended, <<>> when it
\* is skipped; an AttributeError is raised.
parse_food_item(item) ==
    IF ~HasGet(item) THEN Raise("AttributeError", <<>>)
    ELSE
    LET standard == Get(item, "standard_serving", <<>>)
        user_consumed == Get(item, "user_consumed", <<>>)
    IN  IF ~HasGet(standard) THEN Raise("AttributeError", <<>>)
        ELSE IF ~HasGet(user_consumed) THEN Raise("AttributeError", <<>>)
        ELSE
        LET number(key) == float_or(Get(standard, key, PyNone), Num(0))
            amount == float_or(Get(user_consumed, "amount", PyNone), Num(0))
            confidence_score ==
                float_or(Get(item, "confidence_score", PyNone), Num(1))
        IN  IF \/ \E key \in {"amount"} \cup NutritionKeySet :
                      number(key).kind = "raise"
               \/ amount.kind = "raise"
               \/ confidence_score.kind = "raise"
            THEN Return(<<>>, <<WARN_PARSE>>)
            ELSE Return(
                <<[food_name |-> Get(item, "food_name", ""),
                   standard_serving |->
                       [key \in {"amount", "unit"} \cup NutritionKeySet |->
                           IF key = "unit" THEN Get(standard, "unit", "g")
                           ELSE number(key).val],
                   user_consumed |->
                       [amount |-> amount.val,
                        unit |-> Get(user_consumed, "unit", "g"),
                        description |->
                            Get(user_consumed, "description", "")],
                   confidence_score |-> confidence_score.val,
                   source_notes |-> Get(item, "source_notes", "")]>>,
                <<>>)

RECURSIVE parse_food_items(_, _, _, _)
parse_food_items(data, i, foods, out) ==
    IF i > Len(data) THEN Return(foods, out)
    ELSE Let(parse_food_item(data[i]), LAMBDA r :
             IF r.kind = "raise" THEN ReturnNone(out \o <<ERR_GEMINI>>)
             ELSE Let(<<foods \o r.val, out \o r.out>>, LAMBDA a :
                      parse_food_items(data, i + 1, a[1], a[2])))

\* analyze_food for a model answer holding the JSON array data
analyze_food(data) == parse_food_items(data, 1, <<>>, <<>>)

\* What analyze_meal receives from the client.
analyzer_response(r) ==
    IF r.kind = "return" THEN [kind |-> "list", foods |-> r.val]
    ELSE [kind |-> "none", foods |-> <<>>]

----------------------------------------------------------------------------
(* core.py: UnitConverter and NutritionCalculator.  A description is the   *)
(* tuple of its characters.                                                *)

CONVERSIONS ==
    [oz |-> Float(2835, 100), ounce |-> Float(2835, 100),
     ounces |-> Float(2835, 100),
     lb |-> Float(45359, 100), pound |-> Float(45359, 100),
     pounds |-> Float(45359, 100),
     kg |-> Num(1000), kilogram |-> Num(1000), kilograms |-> Num(1000),
     g |-> Num(1), gram |-> Num(1), grams |-> Num(1)]

Digits == <<"0", "1", "2", "3", "4", "5", "6", "7", "8", "9">>

Lowercase ==
    <<"a", "b", "c", "d", "e", "f", "g", "h", "i", "j", "k", "l", "m",
      "n", "o", "p", "q", "r", "s", "t", "u", "v", "w", "x", "y", "z">>

Uppercase ==
    <<"A", "B", "C", "D", "E", "F", "G", "H", "I", "J", "K", "L", "M",
      "N", "O", "P", "Q", "R", "S", "T", "U", "V", "W", "X", "Y", "Z">>

Whitespace == {" "}

Range(s) == {s[i] : i \in DOMAIN s}

IndexIn(s, c) == CHOOSE i \in DOMAIN s : s[i] = c

RECURSIVE Pow10(_)
Pow10(k) == IF k = 0 THEN 1 ELSE 10 * Pow10(k - 1)

\* str.lower() of a tuple of characters
lower(chars) ==
    [i \in DOMAIN chars |->
        IF chars[i] \in Range(Uppercase)
        THEN Lowercase[IndexIn(Uppercase, chars[i])] ELSE chars[i]]

\* str.strip() of a tuple of characters
RECURSIVE strip(_)
strip(chars) ==
    IF chars = <<>> THEN <<>>
    ELSE IF Head(chars) \in Whitespace THEN strip(Tail(chars))
    ELSE IF chars[Len(chars)] \in Whitespace
         THEN strip(SubSeq(chars, 1, Len(chars) - 1))
    ELSE chars

\* The string of a tuple of characters, as a key of a dict.
RECURSIVE Str(_)
Str(chars) == IF chars = <<>> THEN "" ELSE Head(chars) \o Str(Tail(chars))

\* The value of a tuple of digits.
RECURSIVE DigitsValue(_)
DigitsValue(chars) ==
    IF chars = <<>> THEN 0
    ELSE 10 * DigitsValue(SubSeq(chars, 1, Len(chars) - 1))
         + (IndexIn(Digits, chars[Len(chars)]) - 1)

\* float() of a match of \d+\.?\d*
float(chars) ==
    LET digits == SelectSeq(chars, LAMBDA c : c # ".")
        point == IF "." \in Range(chars) THEN IndexIn(chars, ".")
                 ELSE Len(chars)
    IN  Float(DigitsValue(digits), Pow10(Len(chars) - point))

\* The first index from i on whose character is not in the class.
RECURSIVE RunEnd(_, _, _)
RunEnd(s, i, class) ==
    IF i <= Len(s) /\ s[i] \in class THEN RunEnd(s, i + 1, class) ELSE i

\* (\d+\.?\d*)\s*([a-zA-Z]+) matched at position i; the character classes
\* are disjoint, so the greedy match is the only one.
MatchAt(s, i) ==
    LET j == RunEnd(s, i, Range(Digits))
        k == IF j <= Len(s) /\ s[j] = "." THEN j + 1 ELSE j
        l == RunEnd(s, k, Range(Digits))
        m == RunEnd(s, l, Whitespace)
        e == RunEnd(s, m, Range(Lowercase) \cup Range(Uppercase))
    IN  [matched |-> j > i /\ e > m,
         group1 |-> SubSeq(s, i, l - 1),
         group2 |-> SubSeq(s, m, e - 1)]

\* UnitConverter.to_grams
to_grams(amount, unit) ==
    LET unit_clean == Str(strip(lower(unit)))
    IN  IF unit_clean \in DOMAIN CONVERSIONS
        THEN Mul(amount, CONVERSIONS[unit_clean])
        ELSE amount

\* UnitConverter.extract_amount_and_unit: re.search takes the leftmost match
extract_amount_and_unit(description) ==
    LET starts == {i \in DOMAIN description : MatchAt(description, i).matched}
    IN  IF starts = {} THEN [found |-> FALSE, amount |-> Num(0), unit |-> <<>>]
        ELSE LET i == CHOOSE i \in starts : \A j \in starts : i <= j
                 match == MatchAt(description, i)
             IN  [found |-> TRUE, amount |-> float(match.group1),
                  unit |-> match.group2]

\* round(x, ndigits) of a non-negative x, halves to the even digit
round(x, ndigits) ==
    Let(x, LAMBDA v :
        LET scaled == v.n * Pow10(ndigits)
            q == scaled \div v.d
            r == scaled % v.d
            up == 2 * r > v.d \/ (2 * r = v.d /\ q % 2 = 1)
        IN  Float(IF up THEN q + 1 ELSE q, Pow10(ndigits)))

\* NutritionCalculator.calculate_nutrition
calculate_nutrition(food_data, consumed_description) ==
    Let(extract_amount_and_unit(consumed_description), LAMBDA amount_info :
        IF ~amount_info.found
        THEN Return([servings |-> Num(1),
                     actual_grams |-> food_data.serving_size_grams,
                     calories |-> food_data.calories_per_serving,
                     protein_g |-> food_data.protein_g,
                     carbs_g |-> food_data.carbs_g,
                     fat_g |-> food_data.fat_g,
                     fiber_g |-> food_data.fiber_g], <<>>)
        ELSE
        Let(to_grams(amount_info.amount, amount_info.unit),
            LAMBDA consumed_grams :
            IF IsZero(food_data.serving_size_grams)
            THEN Raise("ZeroDivisionError", <<>>)
            ELSE
            Let(Div(consumed_grams, food_data.serving_size_grams),
                LAMBDA serving_ratio :
                Return(
                    [servings |-> round(serving_ratio, 2),
                     actual_grams |-> consumed_grams,
                     calories |->
                         round(Mul(food_data.calories_per_serving,
                                   serving_ratio), 1),
                     protein_g |->
                         round(Mul(food_data.protein_g, serving_ratio), 1),
                     carbs_g |->
                         round(Mul(food_data.carbs_g, serving_ratio), 1),
                     fat_g |->
                         round(Mul(food_data.fat_g, serving_ratio), 1),
                     fiber_g |->
                         round(Mul(food_data.fiber_g, serving_ratio), 1)],
                    <<>>))))

----------------------------------------------------------------------------
(* core.py: FoodLoggerCore with its analyzer and its database.  A food     *)
(* name is a tuple of characters, as a description is.  The fields a       *)
(* ConsumptionEntry takes from the clock (log_id, date, time) are left     *)
(* out.                                                                    *)

\* key in description_lower
Contains(s, key) ==
    \E i \in 1..(Len(s) - Len(key) + 1) : SubSeq(s, i, i + Len(key) - 1) = key

\* MockFoodAnalyzer.MOCK_FOODS, in the order of the dict
MOCK_FOODS ==
    <<[key |-> <<"c", "h", "i", "c", "k", "e", "n", " ", "b", "r", "e", "a", "s", "t">>,
       food_data |->
          [food_name |->
                   <<"G", "r", "i", "l", "l", "e", "d", " ", "C", "h", "i", "c", "k",
                     "e", "n", " ", "B", "r", "e", "a", "s", "t">>,
               serving_size |-> "100g", serving_size_grams |-> Num(100),
               calories_per_serving |-> Num(165), protein_g |-> Num(31), carbs_g |-> Num(0),
               fat_g |-> Float(36, 10), fiber_g |-> Num(0), confidence |-> "high",
               source_notes |-> "USDA FoodData Central"]],
      [key |-> <<"b", "r", "o", "w", "n", " ", "r", "i", "c", "e">>,
       food_data |->
          [food_name |->
                   <<"B", "r", "o", "w", "n", " ", "R", "i", "c", "e", " ", "(", "c",
                     "o", "o", "k", "e", "d", ")">>,
               serving_size |-> "1 cup (195g)", serving_size_grams |-> Num(195),
               calories_per_serving |-> Num(216), protein_g |-> Num(5), carbs_g |-> Num(45),
               fat_g |-> Float(18, 10), fiber_g |-> Float(35, 10), confidence |-> "high",
               source_notes |-> "USDA FoodData Central"]],
      [key |-> <<"s", "a", "l", "m", "o", "n">>,
       food_data |->
          [food_name |->
                   <<"A", "t", "l", "a", "n", "t", "i", "c", " ", "S", "a", "l", "m",
                     "o", "n", " ", "F", "i", "l", "l", "e", "t">>,
               serving_size |-> "100g", serving_size_grams |-> Num(100),
               calories_per_serving |-> Num(208), protein_g |-> Float(254, 10), carbs_g |-> Num(0),
               fat_g |-> Float(124, 10), fiber_g |-> Num(0), confidence |-> "high",
               source_notes |-> "USDA FoodData Central"]]>>

\* The generic fallback of MockFoodAnalyzer.analyze_food
UNKNOWN_FOOD ==
    [food_name |->
             <<"U", "n", "k", "n", "o", "w", "n", " ", "F", "o", "o", "d", " ",
               "I", "t", "e", "m">>,
         serving_size |-> "100g", serving_size_grams |-> Num(100),
         calories_per_serving |-> Num(150), protein_g |-> Num(10), carbs_g |-> Num(15),
         fat_g |-> Num(5), fiber_g |-> Num(2), confidence |-> "low",
         source_notes |-> "Estimated values"]

\* MockFoodAnalyzer.analyze_food
mock_analyze_food(description) ==
    LET description_lower == lower(description)
        hits == {i \in DOMAIN MOCK_FOODS :
                    Contains(description_lower, MOCK_FOODS[i].key)}
    IN  IF hits # {}
        THEN MOCK_FOODS[CHOOSE i \in hits : \A j \in hits : i <= j].food_data
        ELSE UNKNOWN_FOOD

\* dict[key] = value
Put(dict, key, value) ==
    [k \in DOMAIN dict \cup {key} |-> IF k = key THEN value ELSE dict[k]]

\* MockFoodDatabase.find_food looking the name up as it is spelled.
find_food_exact(db, food_name) ==
    IF Str(food_name) \in DOMAIN db.food_name_to_id
    THEN [found |-> TRUE, food_id |-> db.food_name_to_id[Str(food_name)],
          food_data |-> db.foods[db.food_name_to_id[Str(food_name)]]]
    ELSE [found |-> FALSE]

\* MockFoodDatabase.find_food
find_food(db, food_name) ==
    IF Str(lower(food_name)) \in DOMAIN db.food_name_to_id
    THEN [found |-> TRUE,
          food_id |-> db.food_name_to_id[Str(lower(food_name))],
          food_data |-> db.foods[db.food_name_to_id[Str(lower(food_name))]]]
    ELSE [found |-> FALSE]

\* MockFoodDatabase.save_food indexing the name as it is spelled.
save_food_as_spelled(db, food_data) ==
    LET food_id == "food_" \o ToString(db.next_food_id)
    IN  [food_id |-> food_id,
         database |->
             [db EXCEPT !.next_food_id = @ + 1,
                        !.foods = Put(@, food_id, food_data),
                        !.food_name_to_id =
                            Put(@, Str(food_data.food_name), food_id)]]

\* MockFoodDatabase.save_food: the id and the database afterwards
save_food(db, food_data) ==
    LET food_id == "food_" \o ToString(db.next_food_id)
    IN  [food_id |-> food_id,
         database |->
             [db EXCEPT !.next_food_id = @ + 1,
                        !.foods = Put(@, food_id, food_data),
                        !.food_name_to_id =
                            Put(@, Str(lower(food_data.food_name)), food_id)]]

\* MockFoodDatabase.log_consumption putting the entry before the others.
log_consumption_first(db, entry) ==
    [db EXCEPT !.consumption_log = <<entry>> \o @]

\* MockFoodDatabase.log_consumption
log_consumption(db, entry) ==
    [db EXCEPT !.consumption_log = Append(@, entry)]

\* MockFoodDatabase.get_foods_count
get_foods_count(db) == Cardinality(DOMAIN db.foods)

\* MockFoodDatabase.get_log_count
get_log_count(db) == Len(db.consumption_log)

\* The result dict initialised with an id in it.
NoEntryResult_with_id ==
    [success |-> FALSE, food_data |-> PyNone, nutrition |-> PyNone,
     food_id |-> "food_0", is_new_food |-> FALSE, error |-> ""]

\* The result dict of process_food_entry as it is initialised.
NoEntryResult ==
    [success |-> FALSE, food_data |-> PyNone, nutrition |-> PyNone,
     food_id |-> NoFoodId, is_new_food |-> FALSE, error |-> ""]

\* str(e) taken to be the name of the exception's type.
ExceptionMessage_type(exc) == exc

\* str(e) of an exception caught by process_food_entry: the model names a
\* ZeroDivisionError by its type, a collaborator's exception by its message.
ExceptionMessage(exc) ==
    IF exc = "ZeroDivisionError" THEN "float division by zero" ELSE exc

\* The message of the exception a failing database operation raises.
DatabaseError == "Database error"

\* FoodLoggerCore.process_food_entry.  analysis is how analyze_food ended
\* (a FoodData, None, or an exception with its message) and failing the
\* database operations that raise when called.  The result dict, the
\* database afterwards and the database operations called, in order.
process_food_entry(db, analysis, failing, food_description) ==
    IF analysis.kind = "raise"
    THEN [result |-> [NoEntryResult EXCEPT
                         !.error = ExceptionMessage(analysis.exc)],
          database |-> db, calls |-> <<>>]
    ELSE IF IsNone(analysis.val)
    THEN [result |-> [NoEntryResult EXCEPT
                         !.error = "Failed to analyze food description"],
          database |-> db, calls |-> <<>>]
    ELSE
    Let([NoEntryResult EXCEPT !.food_data = analysis.val], LAMBDA analyzed :
    IF "find_food" \in failing
    THEN [result |-> [analyzed EXCEPT !.error = DatabaseError],
          database |-> db, calls |-> <<"find_food">>]
    ELSE
    Let(find_food(db, analysis.val.food_name), LAMBDA existing_food :
    IF ~existing_food.found /\ "save_food" \in failing
    THEN [result |-> [analyzed EXCEPT !.error = DatabaseError],
          database |-> db, calls |-> <<"find_food", "save_food">>]
    ELSE
    Let(IF existing_food.found
        THEN [food_id |-> existing_food.food_id, database |-> db]
        ELSE save_food(db, analysis.val), LAMBDA saved :
    Let(calculate_nutrition(IF existing_food.found
                            THEN existing_food.food_data ELSE analysis.val,
                            food_description), LAMBDA nutrition :
        LET result_so_far ==
                [analyzed EXCEPT !.food_id = saved.food_id,
                                 !.is_new_food = ~existing_food.found]
            calls == IF existing_food.found THEN <<"find_food">>
                     ELSE <<"find_food", "save_food">>
        IN  IF nutrition.kind = "raise"
            THEN [result |-> [result_so_far EXCEPT
                                 !.error = ExceptionMessage(nutrition.exc)],
                  database |-> saved.database, calls |-> calls]
            ELSE IF "log_consumption" \in failing
            THEN [result |-> [result_so_far EXCEPT
                                 !.nutrition = nutrition.val,
                                 !.error = DatabaseError],
                  database |-> saved.database,
                  calls |-> Append(calls, "log_consumption")]
            ELSE [result |-> [result_so_far EXCEPT
                                 !.nutrition = nutrition.val,
                                 !.success = TRUE],
                  database |->
                      log_consumption(
                          saved.database,
                          [food_id |-> saved.food_id,
                           food_name |-> analysis.val.food_name,
                           description |-> food_description,
                           nutrition |-> nutrition.val]),
                  calls |-> Append(calls, "log_consumption")]))))

----------------------------------------------------------------------------
(* output_writer.py.  A FinalResult is [analysis, avg_confidence,          *)
(* timestamp], its analysis a MealAnalysis of models.py.  The sink is the   *)
(* two files of a CsvOutputWriter, each the sequence of its rows, and the   *)
(* two tabs of the spreadsheet behind a SheetsOutputWriter.  A writer       *)
(* method is modelled by the sink and the result object it leaves behind,   *)
(* and by how it ends.                                                      *)

FOODS_HEADER ==
    <<"food_id", "food_name", "serving_size", "serving_unit", "calories",
      "protein_g", "carbs_g", "fat_g">>

LOG_HEADER ==
    <<"Date", "Food Name", "Unit", "Count", "Calories", "Protein", "Carbs",
      "Fat">>

\* The header rows SheetsClient._initialize_sheets puts on the two tabs.
FOODS_TAB_HEADERS ==
    <<"food_id", "food_name", "serving_size", "serving_size_grams",
      "calories_per_serving", "protein_g", "carbs_g", "fat_g", "fiber_g",
      "sugar_g", "sodium_mg", "potassium_mg", "calcium_mg", "iron_mg",
      "vitamin_c_mg", "confidence", "source_notes", "created_date">>

LOG_TAB_HEADERS ==
    <<"log_id", "date", "time", "food_id", "food_name", "description",
      "servings", "actual_grams", "calories", "protein_g", "carbs_g",
      "fat_g", "fiber_g">>

\* The methods of SheetsClient.
SheetsClientMethods ==
    {"_initialize_sheets", "_get_sheet_data", "_append_to_sheet",
     "find_food", "_row_to_food_data", "save_food", "log_consumption"}

\* How a writer method ends: the sink and the result object as it leaves
\* them, and the exception it raises, if any.
Written(sink_after, result_after) ==
    [kind |-> "return", exc |-> "", sink |-> sink_after,
     result |-> result_after]

WriterRaise(exc, sink_after, result_after) ==
    [kind |-> "raise", exc |-> exc, sink |-> sink_after,
     result |-> result_after]

\* f"F{hash(food.food_name)}": one value per name within a process.
HashId(food_name) == "F<hash of " \o food_name \o ">"

\* not food_id: None and the empty string
Falsy(food_id) == food_id = NoFoodId \/ food_id = ""

\* f"{x:.nf}": the decimal string, held as the number it denotes and the
\* number of its decimals.
format_fixed(x, decimals) ==
    [str |-> round(x, decimals), decimals |-> decimals]

\* timestamp.strftime('%Y-%m-%d')
strftime_date(timestamp) == timestamp.date

\* The header written whatever the file holds.
header_always(file, header) == <<header>>

\* if f.tell() == 0: writer.writerow(header)
header_if_empty(file, header) == IF file = <<>> THEN <<header>> ELSE <<>>

\* Line 43: food.food_id = food.food_id or f"F{hash(food.food_name)}"
assign_food_id(food) ==
    [food EXCEPT !.food_id =
        IF Falsy(@) THEN HashId(food.food_name) ELSE @]

csv_food_row(food) ==
    <<food.food_id, food.food_name, food.standard_serving.size.amount,
      food.standard_serving.size.unit,
      food.standard_serving.nutrition["calories"],
      food.standard_serving.nutrition["protein"],
      food.standard_serving.nutrition["carbs"],
      food.standard_serving.nutrition["fat"]>>

\* CsvOutputWriter.write_foods
csv_write_foods(snk, res) ==
    LET foods ==
            [i \in DOMAIN res.analysis.processed_foods |->
                assign_food_id(res.analysis.processed_foods[i])]
    IN  Written(
            [snk EXCEPT !.foods_file =
                @ \o header_if_empty(@, FOODS_HEADER)
                  \o [i \in DOMAIN foods |-> csv_food_row(foods[i])]],
            [res EXCEPT !.analysis.processed_foods = foods])

csv_log_row(food, timestamp) ==
    <<strftime_date(timestamp), food.food_name, food.consumed.size.unit,
      format_fixed(food.consumed.standard_servings, 2),
      format_fixed(food.consumed.nutrition["calories"], 1),
      format_fixed(food.consumed.nutrition["protein"], 1),
      format_fixed(food.consumed.nutrition["carbs"], 1),
      format_fixed(food.consumed.nutrition["fat"], 1)>>

\* CsvOutputWriter.write_log
csv_write_log(snk, res) ==
    Written(
        [snk EXCEPT !.log_file =
            @ \o header_if_empty(@, LOG_HEADER)
              \o [i \in DOMAIN res.analysis.processed_foods |->
                     csv_log_row(res.analysis.processed_foods[i],
                                 res.timestamp)]],
        res)

sheets_food_row(food) ==
    <<food.food_name, food.standard_serving.size.amount,
      food.standard_serving.size.unit,
      food.standard_serving.nutrition["calories"],
      food.standard_serving.nutrition["protein"],
      food.standard_serving.nutrition["carbs"],
      food.standard_serving.nutrition["fat"]>>

\* self.client.<method>(...) on a SheetsClient: a method the class does not
\* have raises AttributeError.
client_call(method, snk, res) ==
    IF method \in SheetsClientMethods THEN Written(snk, res)
    ELSE WriterRaise("AttributeError", snk, res)

\* SheetsOutputWriter.write_foods
sheets_write_foods(snk, res) ==
    LET new_foods ==
            SelectSeq(res.analysis.processed_foods,
                      LAMBDA food : Falsy(food.food_id))
        food_rows == [i \in DOMAIN new_foods |-> sheets_food_row(new_foods[i])]
    IN  IF food_rows # <<>> THEN client_call("add_foods", snk, res)
        ELSE Written(snk, res)

\* SheetsOutputWriter.write_log
sheets_write_log(snk, res) == client_call("log_meal_analysis", snk, res)

\* OutputWriter.process of a CsvOutputWriter
csv_process(snk, res) ==
    Let(csv_write_foods(snk, res), LAMBDA w :
        IF w.kind = "raise" THEN w ELSE csv_write_log(w.sink, w.result))

\* OutputWriter.process of a SheetsOutputWriter
sheets_process(snk, res) ==
    Let(sheets_write_foods(snk, res), LAMBDA w :
        IF w.kind = "raise" THEN w ELSE sheets_write_log(w.sink, w.result))

----------------------------------------------------------------------------
(* food_logger_service.py: process_meal and the outputs it drives.  The    *)
(* file meal_analysis.csv is the sequence of its rows; a value formatted   *)
(* into a cell with no format specification is held as the value.          *)

\* The header row of export_to_csv.
EXPORT_HEADER ==
    <<"Food Name", "User Consumed", "Standard Serving", "Scaling Factor",
      "Calories", "Protein (g)", "Carbs (g)", "Fat (g)", "Fiber (g)",
      "Sugar (g)", "Sodium (mg)", "Potassium (mg)", "Vitamin C (mg)",
      "Calcium (mg)", "Iron (mg)", "Confidence", "Source Notes">>

\* The nutrient columns of export_to_csv, in the order of the row.
export_keys ==
    <<"calories", "protein_g", "carbs_g", "fat_g", "fiber_g", "sugar_g",
      "sodium_mg", "potassium_mg", "vitamin_c_mg", "calcium_mg", "iron_mg">>

\* The fields of the analysis behind the nutrient columns of the totals row.
export_totals ==
    <<"total_calories", "total_protein", "total_carbs", "total_fat",
      "total_fiber", "total_sugar", "total_sodium", "total_potassium",
      "total_vitamin_c", "total_calcium", "total_iron">>

MSG_EXPORTED == "Exported meal analysis to meal_analysis.csv"

MSG_SHEETS == "Google Sheets logging not yet implemented"

\* The row export_to_csv writes for one food.
export_food_row(food) ==
    <<food.food_name,
      <<food.user_consumed["amount"], food.user_consumed["unit"]>>,
      <<food.standard_serving["amount"], food.standard_serving["unit"]>>,
      format_fixed(food.scaling_factor, 2)>>
    \o [i \in DOMAIN export_keys |->
           format_fixed(food.calculated_nutrition[export_keys[i]], 1)]
    \o <<food.confidence_score, food.source_notes>>

\* The totals row of export_to_csv.
export_totals_row(analysis) ==
    <<"TOTALS", "", "", "">>
    \o [i \in DOMAIN export_keys |->
           format_fixed(analysis[export_totals[i]], 1)]
    \o <<format_fixed(analysis.avg_confidence, 1), analysis.timestamp>>

\* FoodLoggerService.export_to_csv: the file is opened with mode 'w', so
\* what it held is replaced.
export_to_csv(snk, analysis) ==
    [sink |-> [snk EXCEPT !.meal_analysis_file =
                  <<EXPORT_HEADER>>
                  \o [i \in DOMAIN analysis.processed_foods |->
                         export_food_row(analysis.processed_foods[i])]
                  \o <<export_totals_row(analysis)>>],
     out |-> <<MSG_EXPORTED>>]

\* FoodLoggerService.log_to_sheets
log_to_sheets(snk, analysis) == [sink |-> snk, out |-> <<MSG_SHEETS>>]

\* The keyword parameters process_meal declares, with their defaults.
PROCESS_MEAL_DEFAULTS == [export_csv |-> TRUE, log_sheets |-> FALSE]

\* FoodLoggerService.process_meal called with keyword arguments kwargs,
\* response being what the analyzer answers when asked and now the reading
\* of the clock.  How the call ends, the sink afterwards, the descriptions
\* the analyzer was called with and the results handed to the process
\* method of an OutputWriter, each with the class of the writer.
process_meal(snk, food_description, kwargs, response, now) ==
    IF DOMAIN kwargs \ DOMAIN PROCESS_MEAL_DEFAULTS # {}
    THEN [outcome |-> Raise("TypeError", <<>>), sink |-> snk,
          analyzer_calls |-> <<>>, writer_calls |-> <<>>]
    ELSE
    Let(stamped(analyze_meal(response), now), LAMBDA analysis :
        IF analysis.kind # "return"
        THEN [outcome |-> analysis, sink |-> snk,
              analyzer_calls |-> <<food_description>>, writer_calls |-> <<>>]
        ELSE
        Let(IF Get(kwargs, "export_csv", PROCESS_MEAL_DEFAULTS.export_csv)
            THEN export_to_csv(snk, analysis.val)
            ELSE [sink |-> snk, out |-> <<>>], LAMBDA exported :
        Let(IF Get(kwargs, "log_sheets", PROCESS_MEAL_DEFAULTS.log_sheets)
            THEN log_to_sheets(exported.sink, analysis.val)
            ELSE [sink |-> exported.sink, out |-> <<>>], LAMBDA logged :
            [outcome |-> Return(analysis.val,
                                analysis.out \o exported.out \o logged.out),
             sink |-> logged.sink,
             analyzer_calls |-> <<food_description>>,
             writer_calls |-> <<>>])))

----------------------------------------------------------------------------
(* Inputs.                                                                 *)

\* Longest raw food list handed to process_raw_foods / analyze_meal.
MaxFoods == 3

Amounts == {Num(0), Num(1), Num(30), Num(100), Num(150), Num(-150), PyStr}

\* "bowl" stands for a unit token that is not in UNIT_CONVERSIONS.
Units == {"g", "oz", "cup", "piece", "slice", "bowl"}

Sizes == {[amount |-> a, unit |-> u] : a \in Amounts, u \in Units}

\* What calculate_scaling_factor may be handed as a serving.
ServingArgs ==
    Sizes \cup {[unit |-> "g"], [amount |-> Num(100)], NotADict("list")}

Factors ==
    {Num(0), Num(1), Num(2), Float(3, 2), Float(1, 30), Float(12, 5),
     Float(1, 4), Float(1, 2)}

Zeros == [key \in NutritionKeySet |-> Num(0)]

\* Chicken breast per 100 g (spec section 8, scenario).
Chicken ==
    [Zeros EXCEPT !["calories"] = Num(165), !["protein_g"] = Num(31),
                  !["fat_g"] = Float(36, 10), !["sodium_mg"] = Num(74),
                  !["iron_mg"] = Float(1, 2)]

\* A profile with absent fields.
Partial == [calories |-> Num(100), protein_g |-> Num(25)]

Empty == [key \in {} |-> Num(0)]

Nutritions ==
    {Chicken, Partial, Empty, Zeros, [Partial EXCEPT !["calories"] = PyStr],
     [Chicken EXCEPT !["iron_mg"] = PyNone]}

\* A dict with the keys of both arguments, the second taking precedence.
Merge(f, g) ==
    [k \in DOMAIN f \cup DOMAIN g |-> IF k \in DOMAIN g THEN g[k] ELSE f[k]]

Size(a, u) == [amount |-> a, unit |-> u]

\* Primary sizes of a reference serving, optional alternate sizes, consumed
\* sizes and resolution hints of the records handed in one at a time.
Primaries ==
    {Size(Num(100), "g"), Size(Num(30), "g"), Size(Num(0), "g"),
     Size(Num(1), "oz"), Size(Num(1), "bowl"), Size(Num(0), "piece"),
     Size(Num(1), "slice")}

Alternates ==
    {Empty, [alt_size |-> Size(Num(1), "piece")],
     [alt_size |-> Size(Num(0), "piece")]}

Consumeds ==
    {Size(Num(150), "g"), Size(Num(2), "piece"), Size(Num(1), "cup"),
     Size(Num(3), "oz"), Size(Num(2), "bowl"), Size(Num(5), "piece"),
     Size(Num(-150), "g")}

Hints ==
    {Empty, [servings |-> [calculable |-> TRUE]],
     [servings |-> [calculable |-> FALSE]],
     [servings |-> [calculable |-> FALSE, guess |-> Num(2)]]}

RawFood(food_name, standard_serving, user_consumed, confidence_score) ==
    [food_name |-> food_name, standard_serving |-> standard_serving,
     user_consumed |-> user_consumed, confidence_score |-> confidence_score,
     source_notes |-> "USDA"]

SingleRecords ==
    {Merge(RawFood("Food", Merge(Merge(primary, Chicken), alternate),
                   consumed, Num(8)), hint) :
        primary \in Primaries, alternate \in Alternates,
        consumed \in Consumeds, hint \in Hints}

\* Removes one key of a dict.
Without(dict, key) == [k \in DOMAIN dict \ {key} |-> dict[k]]

Turkey ==
    RawFood("Turkey breast",
            Merge(Size(Num(100), "g"),
                  [Zeros EXCEPT !["calories"] = Num(100),
                                !["protein_g"] = Num(25)]),
            Size(Num(100), "g"), Num(9))

Rice ==
    RawFood("Brown rice",
            Merge(Size(Num(100), "g"),
                  [calories |-> Num(125), carbs_g |-> Num(26)]),
            Size(Num(200), "g"), Num(6))

Cookie ==
    Merge(RawFood("Cookie",
                  Merge(Merge(Size(Num(30), "g"), Partial),
                        [alt_size |-> Size(Num(1), "piece")]),
                  Size(Num(2), "piece"), Num(4)),
          [servings |-> [calculable |-> FALSE, guess |-> Num(2)]])

\* The records of the longer lists: three well-formed ones and the ways a
\* record can be malformed.
ListRecords ==
    {Turkey, Rice, Cookie,
     Without(Rice, "standard_serving"),
     Without(Turkey, "source_notes"),
     [Rice EXCEPT !["standard_serving"] = Without(@, "amount")],
     [Turkey EXCEPT !["user_consumed"] = Size(PyStr, "g")],
     [Rice EXCEPT !["standard_serving"] = [@ EXCEPT !["calories"] = PyStr]],
     [Cookie EXCEPT !["standard_serving"] = NotADict("list")]}

RECURSIVE ListsUpTo(_, _)
ListsUpTo(S, n) ==
    IF n = 0 THEN {<<>>}
    ELSE LET shorter == ListsUpTo(S, n - 1)
         IN  shorter \cup {Append(l, x) : l \in shorter, x \in S}

RawLists == ListsUpTo(ListRecords, MaxFoods) \cup {<<r>> : r \in SingleRecords}

\* Serialized foods, as to_dict writes them and the golden files hold them.
DictNutrition(calories, protein) ==
    [calories |-> Num(calories), protein |-> Num(protein),
     carbs |-> Num(0), fat |-> Num(1)]

DictFood(food_name, alt_size, calories, servings) ==
    [food_name |-> food_name, user_description |-> food_name,
     standard_serving |->
         [size |-> Size(Num(100), "g"), alt_size |-> alt_size,
          nutrition |-> DictNutrition(calories, 25)],
     consumed |->
         [size |-> Size(Num(100 * servings), "g"),
          standard_servings |-> Num(servings),
          nutrition |-> DictNutrition(calories * servings, 25 * servings)],
     confidence_score |-> Num(9), source_notes |-> "USDA"]

DictFoods ==
    {DictFood("Turkey breast", PyNone, 100, 1),
     Merge(DictFood("Brown rice", Size(Num(1), "cup"), 125, 2),
           [food_id |-> "F1"]),
     Without(DictFood("Turkey breast", PyNone, 100, 1), "consumed"),
     Merge(DictFood("Cookie", PyNone, 50, 1), [brand |-> "x"])}

RECURSIVE DictSum(_, _, _)
\* The field summed over the consumed nutrition of the first n foods.
DictSum(foods, field, n) ==
    IF n = 0 THEN Num(0)
    ELSE Add(DictSum(foods, field, n - 1),
             IF "consumed" \in DOMAIN foods[n]
             THEN Get(foods[n]["consumed"]["nutrition"], field, Num(0))
             ELSE Num(0))

\* Serialized analyses: totals that are the sums of the foods, zeros or a
\* stale value, and dicts without the required keys.
Dicts ==
    {[processed_foods |-> foods, totals |-> totals] :
        foods \in ListsUpTo(DictFoods, MaxFoods - 1),
        totals \in {DictNutrition(0, 0), DictNutrition(999, 0)}}
    \cup {[processed_foods |-> foods,
           totals |-> [f \in {"calories", "protein", "carbs", "fat"} |->
                          DictSum(foods, f, Len(foods))]] :
             foods \in ListsUpTo(DictFoods, MaxFoods - 1)}
    \cup {[processed_foods |-> <<>>], [totals |-> DictNutrition(0, 0)],
          [processed_foods |-> <<>>, totals |-> [calories |-> Num(0)]]}

\* Most rows a file of the CsvOutputWriter is let grow to.
MaxRows == 4

\* The analyses handed to a writer: deserialized golden files of up to two
\* foods, one food without a food_id and one with.
WriterAnalyses ==
    {from_dict([processed_foods |-> foods,
                totals |-> [f \in {"calories", "protein", "carbs", "fat"} |->
                               DictSum(foods, f, Len(foods))]]).val :
        foods \in ListsUpTo({DictFood("Turkey breast", PyNone, 100, 1),
                             Merge(DictFood("Brown rice", Size(Num(1), "cup"),
                                            125, 2),
                                   [food_id |-> "F1"])}, 2)}

\* The MealAnalysis objects serialized: those above, and each of them with
\* totals that are not the sums of its foods.
MealAnalyses ==
    WriterAnalyses
        \cup {[analysis EXCEPT !.totals = [@ EXCEPT !["calories"] = Num(999)]] :
                 analysis \in WriterAnalyses}

FinalResults ==
    {[analysis |-> analysis, avg_confidence |-> Float(9, 10),
      timestamp |-> [date |-> "2026-01-02", time |-> "12:30:00"]] :
        analysis \in WriterAnalyses}

\* Most invocations made on one service object, or on one FoodLoggerCore.
MaxCalls == 3

\* Readings of the clock, in the order they may be taken.
Times == {1, 2}

\* The raw lists handed to one service object, invocation after invocation.
SessionLists ==
    {<<Turkey>>, <<Rice>>, <<Turkey, Rice>>, <<Rice, Turkey>>,
     <<Without(Rice, "standard_serving")>>,
     <<Turkey, Without(Rice, "standard_serving")>>,
     <<[Turkey EXCEPT !["user_consumed"] = Size(PyStr, "g")], Rice>>}

\* Most calls made on one MockFoodDatabase.
MaxDatabaseCalls == 4

\* The foods saved to a MockFoodDatabase: two whose names differ only in
\* the case of their letters, and a third.
SavedFoods ==
    {[UNKNOWN_FOOD EXCEPT !.food_name = <<"T", "e", "s", "t", " ", "F",
                                          "o", "o", "d">>,
                          !.calories_per_serving = Num(200)],
     [UNKNOWN_FOOD EXCEPT !.food_name = <<"T", "E", "S", "T", " ", "F",
                                          "O", "O", "D">>,
                          !.calories_per_serving = Num(100)],
     MOCK_FOODS[3].food_data}

\* The names looked up: spellings of the first two, and a name never saved.
LookupNames ==
    {<<"T", "e", "s", "t", " ", "F", "o", "o", "d">>,
     <<"t", "e", "s", "t", " ", "f", "o", "o", "d">>,
     <<"T", "E", "S", "T", " ", "F", "O", "O", "D">>,
     <<"T", "o", "f", "u">>}

\* The entries logged.
LoggedEntries ==
    {[food_id |-> "food_1",
      food_name |-> <<"T", "e", "s", "t", " ", "F", "o", "o", "d">>,
      description |-> description,
      nutrition |-> [servings |-> Float(3, 2), actual_grams |-> Num(150),
                     calories |-> Num(300), protein_g |-> Num(30),
                     carbs_g |-> Num(45), fat_g |-> Num(15),
                     fiber_g |-> Float(75, 10)]] :
        description \in {"150g of test food", "some test food"}}

\* The description handed to process_meal.
MealDescriptions == {"Turkey breast 121g"}

\* The keyword arguments process_meal is called with.
MealKwargs ==
    {<<>>, [export_csv |-> FALSE], [log_sheets |-> TRUE],
     [export_csv |-> FALSE, log_sheets |-> TRUE],
     [output_method |-> "csv"], [output_method |-> "sheets"]}

\* What the analyzer answers to process_meal.
MealResponses ==
    {[kind |-> "list", foods |-> l] : l \in SessionLists}
        \cup {[kind |-> "none", foods |-> <<>>],
              [kind |-> "raise", foods |-> <<>>]}

\* The descriptions handed to process_food_entry.
EntryDescriptions ==
    {<<"1", "5", "0", "g", " ", "o", "f", " ", "c", "h", "i", "c", "k",
       "e", "n", " ", "b", "r", "e", "a", "s", "t">>,
     <<"1", " ", "c", "u", "p", " ", "o", "f", " ", "B", "r", "o", "w",
       "n", " ", "R", "i", "c", "e">>,
     <<"a", "n", " ", "a", "p", "p", "l", "e">>}

\* What an analyzer other than MockFoodAnalyzer may answer: None, the
\* chicken under a name in small letters, and a food whose serving weighs
\* nothing.
StubAnswers ==
    {PyNone,
     [MOCK_FOODS[1].food_data EXCEPT !.food_name = lower(@)],
     [UNKNOWN_FOOD EXCEPT !.serving_size_grams = Num(0)]}

\* Most invocations made on a FoodLoggerCore whose collaborators may fail.
MaxFaultyCalls == 2

\* The descriptions handed to it: one with an amount, one without.
FaultDescriptions ==
    {d \in EntryDescriptions : Head(d) = "1" /\ d[2] = "5"}
        \cup {d \in EntryDescriptions : Head(d) = "a"}

\* How analyze_food of a stand-in analyzer may end besides MockFoodAnalyzer's
\* answer: None, a food whose serving weighs nothing, an exception.
FaultyAnalyses ==
    {Return(PyNone, <<>>),
     Return([UNKNOWN_FOOD EXCEPT !.serving_size_grams = Num(0)], <<>>),
     Raise("Analyzer error", <<>>)}

\* The database operations that raise, none or one of them.
FailingSets == {{}, {"find_food"}, {"save_food"}, {"log_consumption"}}

\* The items of the JSON arrays the model answers with: records as the
\* prompt asks for them, and the ways an item can be off.
GeminiItems ==
    {Turkey, Rice,
     Without(Rice, "standard_serving"),
     [Turkey EXCEPT !["user_consumed"] = Size(PyStr, "g")],
     [Rice EXCEPT !["standard_serving"] = [@ EXCEPT !["calories"] = PyStr]],
     [Turkey EXCEPT !["confidence_score"] = PyNone],
     [Rice EXCEPT !["user_consumed"] = Size(PyNone, "g")],
     [Cookie EXCEPT !["standard_serving"] = NotADict("list")],
     NotADict("str")}

GeminiArrays == ListsUpTo(GeminiItems, MaxFoods)

\* Consumed descriptions, as tuples of characters.
Descriptions ==
    {<<"1", "5", "0", "g">>,
     <<"2", " ", "O", "Z">>,
     <<"1", ".", "5", " ", "c", "u", "p", "s">>,
     <<"a", "p", "p", "l", "e">>,
     <<"a", " ", "2", "5", "0", " ", "G", "r", "a", "m", " ", "p", "i", "e">>,
     <<"1", "2", " ", "3", "g">>,
     <<"2", ".", " ", "l", "b">>,
     <<"0", ".", "0", "5", "k", "g">>,
     <<"1", "0", "0">>,
     <<"0", "g">>}

\* Unit tokens handed to UnitConverter.to_grams: the registered mass units,
\* the volume and count units of UNIT_CONVERSIONS, long and unclean
\* spellings, and a token no table holds.
UnitTokens ==
    {<<"g">>, <<"k", "g">>, <<"o", "z">>, <<"l", "b">>,
     <<"m", "l">>, <<"l">>, <<"c", "u", "p">>, <<"t", "b", "s", "p">>,
     <<"t", "s", "p">>,
     <<"p", "i", "e", "c", "e">>, <<"b", "o", "w", "l">>,
     <<"g", "r", "a", "m", "s">>, <<" ", "O", "z", " ">>}

GramAmounts == {Num(0), Num(2), Float(3, 2)}

FoodDatas ==
    {[food_name |-> "Chicken", serving_size_grams |-> grams,
      calories_per_serving |-> calories, protein_g |-> Num(31),
      carbs_g |-> Num(0), fat_g |-> Float(36, 10), fiber_g |-> Float(1, 4)] :
        grams \in {Num(100), Num(85), Float(2835, 100), Num(0)},
        calories \in {Num(165), Float(1205, 10), Num(0)}}

----------------------------------------------------------------------------
(* The state: the call in progress and its outcome.  The service is used  *)
(* synchronously: a call is made when none is pending, and its outcome is *)
(* handed to the caller before the next call.                             *)

NoResult == [kind |-> "init", val |-> Num(0), exc |-> "", out |-> <<>>]

Idle == call.op = "idle"

\* No file of the CsvOutputWriter exists yet; SheetsClient.__init__ has put
\* the headers on the two tabs.
NoSink ==
    [foods_file |-> <<>>, log_file |-> <<>>,
     foods_tab |-> <<FOODS_TAB_HEADERS>>, log_tab |-> <<LOG_TAB_HEADERS>>,
     meal_analysis_file |-> <<>>]

\* MockFoodDatabase.__init__
NoDatabase ==
    [foods |-> <<>>, food_name_to_id |-> <<>>, consumption_log |-> <<>>,
     next_food_id |-> 1]

Init ==
    /\ call = [op |-> "idle"]
    /\ result = NoResult
    /\ sink = NoSink
    /\ database = NoDatabase
    /\ session = <<>>

CalculateScalingFactor ==
    \E standard_serving \in ServingArgs, user_consumed \in ServingArgs :
        /\ Idle
        /\ call' = [op |-> "calculate_scaling_factor",
                    standard_serving |-> standard_serving,
                    user_consumed |-> user_consumed]
        /\ result' = calculate_scaling_factor(standard_serving, user_consumed)
        /\ UNCHANGED <<sink, database, session>>

ScaleNutrition ==
    \E nutrition \in Nutritions, scaling_factor \in Factors :
        LET standard_serving == Merge(Size(Num(100), "g"), nutrition)
        IN  /\ Idle
            /\ call' = [op |-> "scale_nutrition",
                        standard_serving |-> standard_serving,
                        scaling_factor |-> scaling_factor,
                        standard_serving_after |->
                            scale_nutrition_argument_after(standard_serving,
                                                           scaling_factor)]
            /\ result' = scale_nutrition(standard_serving, scaling_factor)
            /\ UNCHANGED <<sink, database, session>>

ProcessRawFoods ==
    \E raw_foods \in RawLists :
        /\ Idle
        /\ call' = [op |-> "process_raw_foods", raw_foods |-> raw_foods]
        /\ result' = process_raw_foods(raw_foods)
        /\ UNCHANGED <<sink, database, session>>

\* The injected analyzer answers with a list, with None, or raises.
AnalyzeMeal ==
    \E response \in {[kind |-> "list", foods |-> l] : l \in RawLists}
                     \cup {[kind |-> "none", foods |-> <<>>],
                           [kind |-> "raise", foods |-> <<>>]} :
        /\ Idle
        /\ call' = [op |-> "analyze_meal", response |-> response]
        /\ result' = analyze_meal(response)
        /\ UNCHANGED <<sink, database, session>>

\* analyze_meal with the Gemini client as its analyzer.
AnalyzeMealGemini ==
    \E data \in GeminiArrays :
        \E response \in {analyzer_response(analyze_food(data))} :
            /\ Idle
            /\ call' = [op |-> "analyze_meal", response |-> response,
                        data |-> data]
            /\ result' = analyze_meal(response)
            /\ UNCHANGED <<sink, database, session>>

CalculateNutrition ==
    \E food_data \in FoodDatas, consumed_description \in Descriptions :
        /\ Idle
        /\ call' = [op |-> "calculate_nutrition", food_data |-> food_data,
                    consumed_description |-> consumed_description]
        /\ result' = calculate_nutrition(food_data, consumed_description)
        /\ UNCHANGED <<sink, database, session>>

ToGrams ==
    \E amount \in GramAmounts, unit \in UnitTokens :
        /\ Idle
        /\ call' = [op |-> "to_grams", amount |-> amount, unit |-> unit]
        /\ result' = Return(to_grams(amount, unit), <<>>)
        /\ UNCHANGED <<sink, database, session>>

FromDict ==
    \E data \in Dicts :
        /\ Idle
        /\ call' = [op |-> "from_dict", data |-> data]
        /\ result' = from_dict(data)
        /\ UNCHANGED <<sink, database, session>>

\* MealAnalysis.from_dict(m.to_dict())
ToDictFromDict ==
    \E analysis \in MealAnalyses :
        \E data \in {to_dict(analysis)} :
            /\ Idle
            /\ call' = [op |-> "to_dict_from_dict", analysis |-> analysis,
                        data |-> data]
            /\ result' = from_dict(data)
            /\ UNCHANGED <<sink, database, session>>

\* The caller takes the outcome; nothing of the call is kept.
Discard ==
    /\ ~Idle
    /\ call' = [op |-> "idle"]
    /\ result' = NoResult
    /\ UNCHANGED <<sink, database, session>>

Next ==
    \/ CalculateScalingFactor
    \/ ScaleNutrition
    \/ ProcessRawFoods
    \/ AnalyzeMeal
    \/ AnalyzeMealGemini
    \/ CalculateNutrition
    \/ ToGrams
    \/ FromDict
    \/ ToDictFromDict
    \/ Discard

Spec == Init /\ [][Next]_vars

----------------------------------------------------------------------------
(* The writers at work: results are handed to the methods of one           *)
(* CsvOutputWriter and one SheetsOutputWriter, one call after the other.   *)
(* call.result_after is the result object as the method left it.           *)

\* The outcome of a writer method as the caller sees it.
WriterOutcome(written) ==
    IF written.kind = "raise" THEN Raise(written.exc, <<>>)
    ELSE Return(PyNone, <<>>)

CsvWriteFoods ==
    \E res \in FinalResults :
        \E written \in {csv_write_foods(sink, res)} :
            /\ Len(written.sink.foods_file) <= MaxRows
            /\ Len(written.sink.log_file) <= MaxRows
            /\ call' = [op |-> "csv_write_foods", result |-> res,
                        result_after |-> written.result]
            /\ result' = WriterOutcome(written)
            /\ sink' = written.sink
            /\ UNCHANGED <<database, session>>

CsvWriteLog ==
    \E res \in FinalResults :
        \E written \in {csv_write_log(sink, res)} :
            /\ Len(written.sink.foods_file) <= MaxRows
            /\ Len(written.sink.log_file) <= MaxRows
            /\ call' = [op |-> "csv_write_log", result |-> res,
                        result_after |-> written.result]
            /\ result' = WriterOutcome(written)
            /\ sink' = written.sink
            /\ UNCHANGED <<database, session>>

CsvProcess ==
    \E res \in FinalResults :
        \E written \in {csv_process(sink, res)} :
            /\ Len(written.sink.foods_file) <= MaxRows
            /\ Len(written.sink.log_file) <= MaxRows
            /\ call' = [op |-> "csv_process", result |-> res,
                        result_after |-> written.result]
            /\ result' = WriterOutcome(written)
            /\ sink' = written.sink
            /\ UNCHANGED <<database, session>>

SheetsWriteFoods ==
    \E res \in FinalResults :
        \E written \in {sheets_write_foods(sink, res)} :
            /\ Len(written.sink.foods_file) <= MaxRows
            /\ Len(written.sink.log_file) <= MaxRows
            /\ call' = [op |-> "sheets_write_foods", result |-> res,
                        result_after |-> written.result]
            /\ result' = WriterOutcome(written)
            /\ sink' = written.sink
            /\ UNCHANGED <<database, session>>

SheetsWriteLog ==
    \E res \in FinalResults :
        \E written \in {sheets_write_log(sink, res)} :
            /\ Len(written.sink.foods_file) <= MaxRows
            /\ Len(written.sink.log_file) <= MaxRows
            /\ call' = [op |-> "sheets_write_log", result |-> res,
                        result_after |-> written.result]
            /\ result' = WriterOutcome(written)
            /\ sink' = written.sink
            /\ UNCHANGED <<database, session>>

SheetsProcess ==
    \E res \in FinalResults :
        \E written \in {sheets_process(sink, res)} :
            /\ Len(written.sink.foods_file) <= MaxRows
            /\ Len(written.sink.log_file) <= MaxRows
            /\ call' = [op |-> "sheets_process", result |-> res,
                        result_after |-> written.result]
            /\ result' = WriterOutcome(written)
            /\ sink' = written.sink
            /\ UNCHANGED <<database, session>>

WriterNext ==
    \/ CsvWriteFoods
    \/ CsvWriteLog
    \/ CsvProcess
    \/ SheetsWriteFoods
    \/ SheetsWriteLog
    \/ SheetsProcess

WriterSpec == Init /\ [][WriterNext]_vars

----------------------------------------------------------------------------
(* One FoodLoggerService object used for several invocations in a row.     *)
(* session holds the invocations made so far: the operation, the raw list, *)
(* the outcome and the foods it returned.                                   *)

\* The last reading of the clock.
LastTime == IF session = <<>> THEN 1 ELSE session[Len(session)].now

ProcessRawFoodsSession ==
    /\ Len(session) < MaxCalls
    /\ \E raw_foods \in SessionLists, now \in Times :
           \E outcome \in {process_raw_foods(raw_foods)} :
               /\ now >= LastTime
               /\ call' = [op |-> "process_raw_foods", raw_foods |-> raw_foods]
               /\ result' = outcome
               /\ session' = Append(session,
                                    [op |-> "process_raw_foods",
                                     raw |-> raw_foods, now |-> now,
                                     outcome |-> outcome,
                                     foods |-> IF outcome.kind = "return"
                                               THEN outcome.val ELSE <<>>])
               /\ UNCHANGED <<sink, database>>

AnalyzeMealSession ==
    /\ Len(session) < MaxCalls
    /\ \E raw_foods \in SessionLists, now \in Times :
           \E outcome \in {stamped(analyze_meal([kind |-> "list",
                                                  foods |-> raw_foods]), now)} :
               /\ now >= LastTime
               /\ call' = [op |-> "analyze_meal",
                           response |-> [kind |-> "list", foods |-> raw_foods]]
               /\ result' = outcome
               /\ session' = Append(session,
                                    [op |-> "analyze_meal",
                                     raw |-> raw_foods, now |-> now,
                                     outcome |-> outcome,
                                     foods |-> IF outcome.kind = "return"
                                               THEN outcome.val.processed_foods
                                               ELSE <<>>])
               /\ UNCHANGED <<sink, database>>

SessionNext ==
    \/ ProcessRawFoodsSession
    \/ AnalyzeMealSession

SessionSpec == Init /\ [][SessionNext]_vars

----------------------------------------------------------------------------
(* One FoodLoggerCore with a MockFoodDatabase, fed one description after   *)
(* the other.  session holds the calls made so far: the description, the   *)
(* analyzer's answer and the result dict.                                  *)

ProcessFoodEntry ==
    /\ Len(session) < MaxCalls
    /\ \E food_description \in EntryDescriptions :
           \E food_data \in {mock_analyze_food(food_description)}
                               \cup StubAnswers :
               \E done \in {process_food_entry(database,
                                               Return(food_data, <<>>), {},
                                               food_description)} :
                   /\ call' = [op |-> "process_food_entry",
                               food_description |-> food_description,
                               analysis |-> Return(food_data, <<>>),
                               failing |-> {},
                               database_calls |-> done.calls]
                   /\ result' = Return(done.result, <<>>)
                   /\ database' = done.database
                   /\ session' = Append(session,
                                        [op |-> "process_food_entry",
                                         food_description |-> food_description,
                                         food_data |-> food_data,
                                         outcome |-> done.result])
                   /\ UNCHANGED sink

CoreNext == ProcessFoodEntry

CoreSpec == Init /\ [][CoreNext]_vars

----------------------------------------------------------------------------
(* One FoodLoggerCore whose analyzer and database are stand-ins that may   *)
(* raise (unittest.mock.Mock with a side_effect); a failing database       *)
(* operation leaves the database as it was.                                *)

ProcessFoodEntryFaulty ==
    /\ Len(session) < MaxFaultyCalls
    /\ \E food_description \in FaultDescriptions :
           \E analysis \in {Return(mock_analyze_food(food_description), <<>>)}
                              \cup FaultyAnalyses :
               \E failing \in FailingSets :
                   \E done \in {process_food_entry(database, analysis,
                                                   failing,
                                                   food_description)} :
                       /\ call' = [op |-> "process_food_entry",
                                   food_description |-> food_description,
                                   analysis |-> analysis,
                                   failing |-> failing,
                                   database_calls |-> done.calls]
                       /\ result' = Return(done.result, <<>>)
                       /\ database' = done.database
                       /\ session' = Append(session,
                                            [op |-> "process_food_entry",
                                             food_description |->
                                                 food_description,
                                             food_data |-> analysis.val,
                                             outcome |-> done.result])
                       /\ UNCHANGED sink

FaultNext == ProcessFoodEntryFaulty

FaultSpec == Init /\ [][FaultNext]_vars

----------------------------------------------------------------------------
(* One FoodLoggerService whose process_meal is called again and again.     *)

\* The reading of the clock in the file last exported, 0 without a file.
ExportTime ==
    IF sink.meal_analysis_file = <<>> THEN 0
    ELSE sink.meal_analysis_file[Len(sink.meal_analysis_file)][17]

ProcessMeal ==
    \E food_description \in MealDescriptions, kwargs \in MealKwargs :
        \E response \in MealResponses, now \in Times :
            /\ now >= ExportTime
            /\ \E done \in {process_meal(sink, food_description, kwargs,
                                         response, now)} :
                /\ call' = [op |-> "process_meal",
                            food_description |-> food_description,
                            kwargs |-> kwargs, response |-> response,
                            analyzer_calls |-> done.analyzer_calls,
                            writer_calls |-> done.writer_calls]
                /\ result' = done.outcome
                /\ sink' = done.sink
                /\ UNCHANGED <<database, session>>

MealNext == ProcessMeal

MealSpec == Init /\ [][MealNext]_vars

----------------------------------------------------------------------------
(* One MockFoodDatabase called directly.  session holds the calls made so  *)
(* far with what they returned.                                            *)

FindFood ==
    /\ Len(session) < MaxDatabaseCalls
    /\ \E food_name \in LookupNames :
           \E found \in {find_food(database, food_name)} :
               /\ call' = [op |-> "find_food", food_name |-> food_name]
               /\ result' = Return(found, <<>>)
               /\ session' = Append(session,
                                    [op |-> "find_food",
                                     food_name |-> food_name,
                                     outcome |-> found])
               /\ UNCHANGED <<sink, database>>

SaveFood ==
    /\ Len(session) < MaxDatabaseCalls
    /\ \E food_data \in SavedFoods :
           \E saved \in {save_food(database, food_data)} :
               /\ call' = [op |-> "save_food", food_data |-> food_data]
               /\ result' = Return(saved.food_id, <<>>)
               /\ database' = saved.database
               /\ session' = Append(session,
                                    [op |-> "save_food",
                                     food_data |-> food_data,
                                     outcome |-> saved.food_id])
               /\ UNCHANGED sink

LogConsumption ==
    /\ Len(session) < MaxDatabaseCalls
    /\ \E entry \in LoggedEntries :
           /\ call' = [op |-> "log_consumption", entry |-> entry]
           /\ result' = Return(PyNone, <<>>)
           /\ database' = log_consumption(database, entry)
           /\ session' = Append(session,
                                [op |-> "log_consumption", entry |-> entry,
                                 outcome |-> PyNone])
           /\ UNCHANGED sink

DatabaseNext == FindFood \/ SaveFood \/ LogConsumption

DatabaseSpec == Init /\ [][DatabaseNext]_vars

----------------------------------------------------------------------------
(* Serving resolution (spec section 4.2).  The reference serving's primary *)
(* size is standard_serving's amount and unit, its alternate size is       *)
(* standard_serving's alt_size, the hint is the record's servings entry.   *)

\* A quantity: a dict with a numeric amount and a unit.
IsQuantity(x) ==
    /\ IsDict(x)
    /\ {"amount", "unit"} \subseteq DOMAIN x
    /\ IsNum(x["amount"])

ResolverCall ==
    /\ call.op = "calculate_scaling_factor"
    /\ IsQuantity(call.standard_serving)
    /\ IsQuantity(call.user_consumed)

\* process_raw_foods called on one record with all its top-level keys and
\* well-formed quantities.
SingleCall ==
    /\ call.op = "process_raw_foods"
    /\ Len(call.raw_foods) = 1
    /\ {"food_name", "standard_serving", "user_consumed", "confidence_score",
        "source_notes"} \subseteq DOMAIN call.raw_foods[1]
    /\ IsQuantity(call.raw_foods[1]["standard_serving"])
    /\ IsQuantity(call.raw_foods[1]["user_consumed"])
    /\ \A key \in NutritionKeySet :
           IsNum(Get(call.raw_foods[1]["standard_serving"], key, Num(0)))

Record == call.raw_foods[1]

Primary == Record["standard_serving"]

Consumed == Record["user_consumed"]

HasAlternate == "alt_size" \in DOMAIN Primary

Alternate == Primary["alt_size"]

HintCalculable ==
    "servings" \in DOMAIN Record /\ Record["servings"]["calculable"]

HintNotCalculable ==
    "servings" \in DOMAIN Record /\ ~Record["servings"]["calculable"]

\* The call returned one food whose scaling factor is x.
Resolved(x) ==
    /\ result.kind = "return"
    /\ Len(result.val) = 1
    /\ result.val[1].scaling_factor = x

C2_HintOverride ==
    (SingleCall /\ HintNotCalculable)
    => Resolved(IF "guess" \in DOMAIN Record["servings"]
                THEN Record["servings"]["guess"] ELSE Num(1))

\* C3: with hint.calculable true, no match on the primary tier, an alternate
\* size present whose unit equals the consumed unit and whose amount is > 0,
\* the resolver returns consumed.amount / alternate.amount.
C3_AlternateTier ==
    (SingleCall /\ HintCalculable
     /\ (Consumed["unit"] # Primary["unit"] \/ ~Gt0(Primary["amount"]))
     /\ HasAlternate
     /\ Consumed["unit"] = Alternate["unit"] /\ Gt0(Alternate["amount"]))
    => Resolved(Div(Consumed["amount"], Alternate["amount"]))

\* C4: with hint.calculable true and a consumed unit equal neither to the
\* primary unit nor to the unit of a present alternate size, the resolver
\* returns exactly 1.0.
C4_NoMatchFallback ==
    (SingleCall /\ HintCalculable
     /\ Consumed["unit"] # Primary["unit"]
     /\ (HasAlternate => Consumed["unit"] # Alternate["unit"]))
    => Resolved(Num(1))

----------------------------------------------------------------------------
(* Nutrient scaling (spec section 4.3).                                    *)

ScaleCall ==
    /\ call.op = "scale_nutrition"
    /\ \A key \in NutritionKeySet :
           IsNum(Get(call.standard_serving, key, Num(0)))

----------------------------------------------------------------------------
(* Meal aggregation (spec section 4.4).                                    *)

RECURSIVE SeqSum(_)
SeqSum(xs) == IF xs = <<>> THEN Num(0) ELSE Add(Head(xs), SeqSum(Tail(xs)))

\* The total field of a service MealAnalysis that belongs to a nutrient key.
TotalOf(analysis, key) ==
    CASE key = "calories" -> analysis.total_calories
      [] key = "protein_g" -> analysis.total_protein
      [] key = "carbs_g" -> analysis.total_carbs
      [] key = "fat_g" -> analysis.total_fat
      [] key = "fiber_g" -> analysis.total_fiber
      [] key = "sugar_g" -> analysis.total_sugar
      [] key = "sodium_mg" -> analysis.total_sodium
      [] key = "potassium_mg" -> analysis.total_potassium
      [] key = "vitamin_c_mg" -> analysis.total_vitamin_c
      [] key = "calcium_mg" -> analysis.total_calcium
      [] key = "iron_mg" -> analysis.total_iron

\* Every total of a service MealAnalysis is the sum over its food list.
TotalsAreSums(analysis) ==
    \A key \in NutritionKeySet :
        TotalOf(analysis, key) =
            SeqSum([i \in DOMAIN analysis.processed_foods |->
                       analysis.processed_foods[i].calculated_nutrition[key]])

\* Every total of a models.MealAnalysis is the sum over its food list.
DictTotalsAreSums(analysis) ==
    \A f \in NutritionalInfoFields :
        analysis.totals[f] =
            SeqSum([i \in DOMAIN analysis.processed_foods |->
                       analysis.processed_foods[i].consumed.nutrition[f]])

MealReturned == call.op = "analyze_meal" /\ result.kind = "return"

Deserialized == call.op = "from_dict" /\ result.kind = "return"

\* C7 (as stated): in every MealAnalysis the program produces or holds, each
\* of the eleven totals is the sum of that field over the consumed nutrients
\* of the foods in its food list.
C7_TotalsEveryAnalysis ==
    /\ MealReturned => TotalsAreSums(result.val)
    /\ Deserialized => DictTotalsAreSums(result.val)

\* C7 (amended): every MealAnalysis returned by analyze_meal has totals that
\* are the sums over its food list; from_dict copies the totals of the
\* dictionary as given (absent optional fields as 0) and does not recompute
\* them.
C7_TotalsAnalyzeMeal ==
    /\ MealReturned => TotalsAreSums(result.val)
    /\ Deserialized
       => \A f \in NutritionalInfoFields :
              result.val.totals[f] = Get(call.data["totals"], f, Num(0))

\* C7 witness: two foods with scaled calories 100 and 250, total 350.
C7_Witness ==
    /\ MealReturned
    /\ Len(result.val.processed_foods) = 2
    /\ result.val.processed_foods[1].calculated_nutrition["calories"]
           = Num(100)
    /\ result.val.processed_foods[2].calculated_nutrition["calories"]
           = Num(250)
    /\ result.val.total_calories = Num(350)

----------------------------------------------------------------------------
(* Partial failure (spec sections 4.4 and 7).                              *)

TopKeys ==
    {"food_name", "standard_serving", "user_consumed", "confidence_score",
     "source_notes"}

NumericNutrients(serving) ==
    \A key \in NutritionKeySet : IsNum(Get(serving, key, Num(0)))

\* A record with every required key and numeric values throughout.
WellFormed(r) ==
    /\ TopKeys \subseteq DOMAIN r
    /\ IsQuantity(r["standard_serving"])
    /\ IsQuantity(r["user_consumed"])
    /\ NumericNutrients(r["standard_serving"])
    /\ IsNum(r["confidence_score"])

\* A record without one of its five top-level keys.
LacksTopKey(r) == ~(TopKeys \subseteq DOMAIN r)

\* A record whose serving dicts lack amount or unit, all else in order.
LacksNestedKey(r) ==
    /\ TopKeys \subseteq DOMAIN r
    /\ IsDict(r["standard_serving"]) /\ IsDict(r["user_consumed"])
    /\ ~({"amount", "unit"} \subseteq DOMAIN r["standard_serving"]
         /\ {"amount", "unit"} \subseteq DOMAIN r["user_consumed"])
    /\ IsNum(Get(r["standard_serving"], "amount", Num(0)))
    /\ IsNum(Get(r["user_consumed"], "amount", Num(0)))
    /\ NumericNutrients(r["standard_serving"])
    /\ IsNum(r["confidence_score"])

\* A record with a non-numeric value or a serving of the wrong shape.
Unparseable(r) ==
    ~WellFormed(r) /\ ~LacksTopKey(r) /\ ~LacksNestedKey(r)

\* The foods are built from exactly the given records, in order.
FoodsAre(foods, records) ==
    /\ Len(foods) = Len(records)
    /\ \A i \in DOMAIN foods :
           /\ foods[i].food_name = records[i]["food_name"]
           /\ foods[i].standard_serving = records[i]["standard_serving"]
           /\ foods[i].user_consumed = records[i]["user_consumed"]
           /\ foods[i].confidence_score = records[i]["confidence_score"]

\* The raw list of an aggregation: the argument of process_raw_foods or the
\* list the analyzer handed to analyze_meal.
Aggregation ==
    \/ call.op = "process_raw_foods"
    \/ call.op = "analyze_meal" /\ call.response.kind = "list"

RawList ==
    IF call.op = "process_raw_foods" THEN call.raw_foods
    ELSE call.response.foods

\* The foods of the outcome, when the call returned some.
HasFoods ==
    /\ result.kind = "return"
    /\ call.op = "analyze_meal" => TotalsAreSums(result.val)

Foods ==
    IF call.op = "process_raw_foods" THEN result.val
    ELSE result.val.processed_foods

\* C8 (as stated): when some records lack a required key, at any level, and
\* at least one record is well formed, the foods are exactly the well-formed
\* records and the totals reflect only those.
C8_MissingKeyDropped ==
    (/\ Aggregation
     /\ \A i \in DOMAIN RawList :
            WellFormed(RawList[i]) \/ LacksTopKey(RawList[i])
                \/ LacksNestedKey(RawList[i])
     /\ \E i \in DOMAIN RawList : WellFormed(RawList[i]))
    => /\ HasFoods
       /\ FoodsAre(Foods, SelectSeq(RawList, WellFormed))

\* C8 (amended): in a list whose records are each well formed or lack a key,
\* a record without one of its five top-level keys is dropped, while a
\* record whose standard_serving or user_consumed lacks amount or unit is
\* kept with scaling factor 1.0; with at least one record kept, the foods
\* are exactly the records that have their top-level keys, and the totals
\* are the sums over those.
C8_TopLevelKeyDropped ==
    (/\ Aggregation
     /\ \A i \in DOMAIN RawList :
            WellFormed(RawList[i]) \/ LacksTopKey(RawList[i])
                \/ LacksNestedKey(RawList[i])
     /\ \E i \in DOMAIN RawList : ~LacksTopKey(RawList[i]))
    => LET kept(r) == ~LacksTopKey(r)
       IN  /\ HasFoods
           /\ FoodsAre(Foods, SelectSeq(RawList, kept))
           /\ \A i \in DOMAIN Foods :
                  LacksNestedKey(SelectSeq(RawList, kept)[i])
                  => Foods[i].scaling_factor = Num(1)

\* C8 witness: three records, the second without standard_serving, give
\* exactly two foods.
C8_Witness ==
    /\ Aggregation
    /\ Len(RawList) = 3
    /\ WellFormed(RawList[1])
    /\ "standard_serving" \notin DOMAIN RawList[2]
    /\ WellFormed(RawList[3])
    /\ HasFoods
    /\ Len(Foods) = 2
    /\ FoodsAre(Foods, <<RawList[1], RawList[3]>>)

\* The values of a record that have to be numbers.
NumericValues(r) ==
    {Get(r["standard_serving"], key, Num(0)) :
         key \in {"amount"} \cup NutritionKeySet}
    \cup {Get(r["user_consumed"], "amount", Num(0)), r["confidence_score"]}

\* An item of the client's JSON array that is not well formed because a
\* value is a non-numeric string, a serving is not an object, or the item
\* itself is not an object (a null where a number is expected is not meant).
UnparseableItem(item) ==
    \/ ~HasGet(item)
    \/ /\ TopKeys \subseteq DOMAIN item
       /\ \/ ~HasGet(item["standard_serving"])
          \/ ~HasGet(item["user_consumed"])
          \/ /\ Unparseable(item)
             /\ \A v \in NumericValues(item) : ~IsNone(v)

WellFormedItem(item) == HasGet(item) /\ WellFormed(item)

GeminiCall == call.op = "analyze_meal" /\ "data" \in DOMAIN call

\* C9: a record with a non-numeric quantity or nutrient value, or with a
\* serving of the wrong shape, is dropped and the other records are still
\* processed: when every record of the list is well formed or unparseable
\* and at least one is well formed, the aggregation yields exactly the
\* well-formed records, both for a raw list handed to the service and for a
\* JSON array answered to the Gemini client.
C9_UnparseableDropped ==
    /\ (/\ Aggregation
        /\ \A i \in DOMAIN RawList :
               WellFormed(RawList[i]) \/ Unparseable(RawList[i])
        /\ \E i \in DOMAIN RawList : WellFormed(RawList[i]))
       => /\ HasFoods
          /\ FoodsAre(Foods, SelectSeq(RawList, WellFormed))
    /\ (/\ GeminiCall
        /\ \A i \in DOMAIN call.data :
               WellFormedItem(call.data[i]) \/ UnparseableItem(call.data[i])
        /\ \E i \in DOMAIN call.data : WellFormedItem(call.data[i]))
       => LET kept == SelectSeq(call.data, WellFormedItem)
          IN  /\ HasFoods
              /\ Len(Foods) = Len(kept)
              /\ \A i \in DOMAIN Foods :
                     Foods[i].food_name = kept[i]["food_name"]

\* A malformed record: one without a required top-level key or with an
\* unparseable value.
Malformed(r) == LacksTopKey(r) \/ Unparseable(r)

\* C10: analyze_meal, handed a raw list whose records are each well formed
\* or malformed, produces no MealAnalysis if and only if the list is empty
\* or every record in it is malformed, and it returns that outcome instead
\* of raising.
C10_NoResultIffAllMalformed ==
    (/\ call.op = "analyze_meal"
     /\ call.response.kind = "list"
     /\ \A i \in DOMAIN RawList :
            WellFormed(RawList[i]) \/ Malformed(RawList[i]))
    => /\ result.kind \in {"return", "none"}
       /\ result.kind = "none"
          <=> \A i \in DOMAIN RawList : Malformed(RawList[i])

----------------------------------------------------------------------------
(* Zero reference amounts (spec section 4.2, edge cases).                  *)

\* C5: a primary amount of 0 in the consumed unit is not matched: the
\* resolver goes on to the alternate size (consumed.amount divided by
\* alternate.amount when its unit matches and its amount is > 0) and to 1.0
\* when nothing matches; and neither calculate_scaling_factor, handed
\* numeric quantities, nor calculate_nutrition ends in an exception.
C5_ZeroReferenceAmount ==
    /\ (SingleCall /\ HintCalculable
        /\ Consumed["unit"] = Primary["unit"] /\ IsZero(Primary["amount"]))
       => Resolved(IF HasAlternate /\ Consumed["unit"] = Alternate["unit"]
                      /\ Gt0(Alternate["amount"])
                   THEN Div(Consumed["amount"], Alternate["amount"])
                   ELSE Num(1))
    /\ (ResolverCall \/ call.op = "calculate_nutrition")
       => result.kind = "return"

----------------------------------------------------------------------------
(* Consistency of the analysis (spec sections 4.4 and 7).                  *)

\* The food carries all eleven fields of its reference serving, each
\* multiplied by the food's scaling factor.
FullyScaled(food) ==
    /\ DOMAIN food.calculated_nutrition = NutritionKeySet
    /\ \A key \in NutritionKeySet :
           food.calculated_nutrition[key] =
               Mul(Get(food.standard_serving, key, Num(0)),
                   food.scaling_factor)

\* The arithmetic mean of confidence_score over the foods (at least one).
MeanConfidence(foods) ==
    Div(SeqSum([i \in DOMAIN foods |-> foods[i].confidence_score]),
        Num(Len(foods)))

\* A record the loop of process_raw_foods appends a food for.
Included(r) == ~LacksTopKey(r)

\* C11: an aggregation that yields foods yields one food for each included
\* record and none for the others, in order; every food carries all eleven
\* reference fields times its scaling factor; and in a MealAnalysis the
\* totals are the sums, and the mean confidence the mean, over exactly these
\* foods.  An aggregation that fails includes nothing.
C11_AllOrNothing ==
    (Aggregation /\ result.kind = "return")
    => /\ FoodsAre(Foods, SelectSeq(RawList, Included))
       /\ \A i \in DOMAIN Foods : FullyScaled(Foods[i])
       /\ call.op = "analyze_meal"
          => /\ TotalsAreSums(result.val)
             /\ result.val.avg_confidence = MeanConfidence(Foods)

\* C11 witness: of two records the second has no standard_serving; the
\* first, 200 g against 100 g with 125 kcal, is included with factor 2 and
\* 250 kcal, which is the total.
C11_Witness ==
    /\ call.op = "analyze_meal"
    /\ call.response.kind = "list"
    /\ Len(RawList) = 2
    /\ RawList[1] = Rice
    /\ "standard_serving" \notin DOMAIN RawList[2]
    /\ result.kind = "return"
    /\ Len(Foods) = 1
    /\ Foods[1].scaling_factor = Num(2)
    /\ FullyScaled(Foods[1])
    /\ Foods[1].calculated_nutrition["calories"] = Num(250)
    /\ result.val.total_calories = Num(250)

\* C12: the average confidence of a returned MealAnalysis is the sum of
\* confidence_score over the foods of its list divided by their number, and
\* these foods are the included records: a dropped record enters neither.
C12_MeanConfidence ==
    MealReturned
    => /\ result.val.avg_confidence = MeanConfidence(Foods)
       /\ Len(Foods) = Len(SelectSeq(RawList, Included))
       /\ \A i \in DOMAIN Foods :
              Foods[i].confidence_score =
                  SelectSeq(RawList, Included)[i]["confidence_score"]

\* C12 witness: of three records with confidences 9, 6 and 4 the second is
\* dropped; the average is (9 + 4) / 2.
C12_Witness ==
    /\ MealReturned
    /\ Len(RawList) = 3
    /\ RawList[1] = Turkey
    /\ LacksTopKey(RawList[2])
    /\ RawList[3] = Cookie
    /\ Len(Foods) = 2
    /\ result.val.avg_confidence = Float(13, 2)

----------------------------------------------------------------------------
(* Non-negativity (spec sections 3 and 4.2).                               *)

Negative(x) == x.n < 0

\* C13: the scaling factor calculate_scaling_factor returns is never
\* negative, and no field of a food's calculated nutrition or of the totals
\* of a MealAnalysis is negative, whatever amounts the raw input holds.
C13_NonNegative ==
    /\ (ResolverCall /\ result.kind = "return") => ~Negative(result.val)
    /\ (Aggregation /\ result.kind = "return")
       => /\ \A i \in DOMAIN Foods :
                 /\ ~Negative(Foods[i].scaling_factor)
                 /\ \A key \in DOMAIN Foods[i].calculated_nutrition :
                        ~Negative(Foods[i].calculated_nutrition[key])
          /\ call.op = "analyze_meal"
             => \A key \in NutritionKeySet :
                    ~Negative(TotalOf(result.val, key))

----------------------------------------------------------------------------
(* The unit registry (spec section 4.1).                                   *)

\* The factors the registry is stated to hold for mass and volume units.
StatedFactors ==
    [g |-> Num(1), kg |-> Num(1000), oz |-> Float(2835, 100),
     lb |-> Float(45359, 100),
     ml |-> Num(1), l |-> Num(1000), cup |-> Num(240), tbsp |-> Num(15),
     tsp |-> Num(5)]

ToGramsCall == call.op = "to_grams" /\ result.kind = "return"

\* A unit token that lower() and strip() leave as it is.
CleanUnit == ToGramsCall /\ strip(lower(call.unit)) = call.unit

\* C14: the conversion to the base unit returns amount * factor for the mass
\* units g, kg, oz, lb and the volume units ml, l, cup, tbsp, tsp, and the
\* amount unchanged, without an error, for count units and for every
\* unrecognized unit token; both the table of the service and
\* UnitConverter.to_grams do so.
C14_UnitRegistry ==
    /\ \A unit \in DOMAIN UNIT_CONVERSIONS :
           UNIT_CONVERSIONS[unit] =
               IF unit \in DOMAIN StatedFactors THEN StatedFactors[unit]
               ELSE Num(1)
    /\ call.op = "to_grams" => result.kind = "return"
    /\ CleanUnit
       => result.val =
              IF Str(call.unit) \in DOMAIN StatedFactors
              THEN Mul(call.amount, StatedFactors[Str(call.unit)])
              ELSE call.amount

----------------------------------------------------------------------------
(* Linearity of scaling (spec section 4.3).                                *)

\* C15: scaling a nutrient vector by a + b gives, field by field, the sum of
\* the vector scaled by a and the vector scaled by b, for factors a, b >= 0.
C15_Linearity ==
    (ScaleCall /\ result.kind = "return")
    => \A a, b \in Factors :
           (~Negative(a) /\ ~Negative(b) /\ Add(a, b) = call.scaling_factor)
           => \A key \in NutritionKeySet :
                  result.val[key] =
                      Add(scale_nutrition(call.standard_serving, a).val[key],
                          scale_nutrition(call.standard_serving, b).val[key])

\* C15 witness: the chicken profile scaled by 3/2 = 1/2 + 1: 31 g of protein
\* become 46.5 g = 15.5 g + 31 g.
C15_Witness ==
    /\ ScaleCall
    /\ result.kind = "return"
    /\ call.scaling_factor = Add(Float(1, 2), Num(1))
    /\ {Float(1, 2), Num(1)} \subseteq Factors
    /\ Get(call.standard_serving, "protein_g", Num(0)) = Num(31)
    /\ result.val["protein_g"] = Float(93, 2)
    /\ scale_nutrition(call.standard_serving, Float(1, 2)).val["protein_g"]
           = Float(31, 2)
    /\ scale_nutrition(call.standard_serving, Num(1)).val["protein_g"]
           = Num(31)

----------------------------------------------------------------------------
(* Warnings (spec section 6).                                              *)

\* The lines the call printed.
Warnings == Range(result.out)

\* The units of a resolver call cannot be reconciled: they differ and are
\* not both in the conversion table.
UnitIncompatible ==
    /\ call.standard_serving["unit"] # call.user_consumed["unit"]
    /\ ~({call.standard_serving["unit"], call.user_consumed["unit"]}
            \subseteq DOMAIN UNIT_CONVERSIONS)

ZeroAmount == IsZero(call.standard_serving["amount"])

\* C16: every local recovery comes with a warning: the fallback factor for
\* units that cannot be reconciled or for a zero standard amount, and every
\* record dropped from a raw list.
C16_WarningOnRecovery ==
    /\ (ResolverCall /\ result.kind = "return"
        /\ (UnitIncompatible \/ ZeroAmount))
       => Warnings # {}
    /\ (Aggregation /\ result.kind = "return" /\ Len(Foods) < Len(RawList))
       => WARN_FOOD \in Warnings

----------------------------------------------------------------------------
(* The persistence writers (spec sections 3 and 5).                        *)

WriterOps ==
    {"csv_write_foods", "csv_write_log", "csv_process",
     "sheets_write_foods", "sheets_write_log", "sheets_process"}

WriterCall == call.op \in WriterOps

\* C17: a writer only reads the result it is handed: when write_foods,
\* write_log or process is over, every field of the MealAnalysis and of its
\* ProcessedFoods is what it was before the call.
C17_ResultReadOnly == WriterCall => call.result_after = call.result

\* A writer method was called with a result that has no foods.
EmptyCall == WriterCall /\ call.result.analysis.processed_foods = <<>>

\* The rows of the sink that are not header rows.
DataRows(snk) ==
    [foods_file |-> SelectSeq(snk.foods_file, LAMBDA row : row # FOODS_HEADER),
     log_file |-> SelectSeq(snk.log_file, LAMBDA row : row # LOG_HEADER),
     foods_tab |->
         SelectSeq(snk.foods_tab, LAMBDA row : row # FOODS_TAB_HEADERS),
     log_tab |-> SelectSeq(snk.log_tab, LAMBDA row : row # LOG_TAB_HEADERS)]

\* C19: a writer method called with a result without foods can be called
\* safely: it completes, it adds no data row to the sink, and called again
\* right after it leaves the sink as the first call left it.
C19_EmptyWriters ==
    [][EmptyCall'
       => /\ result'.kind = "return"
          /\ DataRows(sink') = DataRows(sink)
          /\ (EmptyCall /\ call.op = call'.op) => sink' = sink]_vars

----------------------------------------------------------------------------
(* Statelessness of the aggregator (spec section 5).                       *)

\* What an invocation produced, the timestamp aside: how it ended, and the
\* foods, the totals and the mean confidence it returned.
Produced(invocation) ==
    [kind |-> invocation.outcome.kind,
     val |-> IF invocation.outcome.kind # "return" THEN <<>>
             ELSE IF invocation.op = "analyze_meal"
             THEN Without(invocation.outcome.val, "timestamp")
             ELSE invocation.outcome.val]

----------------------------------------------------------------------------
(* Food reuse in FoodLoggerCore (tests/unit/test_core.py).                 *)

\* Every call made on the core so far was successful.
AllSuccessful == \A i \in DOMAIN session : session[i].outcome.success

\* The analyzed food name of a call, and the name as find_food compares it.
NameOf(i) == session[i].food_data.food_name

NameKey(i) == lower(NameOf(i))

\* C20 (as stated): over successful calls, the first call for an analyzed
\* food name is a new food, every later call for that name is not and has
\* the id of the first, the food count is the number of distinct names and
\* the log count the number of calls.
C20_FoodReuseByName ==
    (session # <<>> /\ session[1].op = "process_food_entry" /\ AllSuccessful)
    => /\ \A i \in DOMAIN session :
              session[i].outcome.is_new_food
                  = (\A j \in 1..(i - 1) : NameOf(j) # NameOf(i))
       /\ \A i, j \in DOMAIN session :
              NameOf(i) = NameOf(j)
              => session[i].outcome.food_id = session[j].outcome.food_id
       /\ get_foods_count(database)
              = Cardinality({NameOf(i) : i \in DOMAIN session})
       /\ get_log_count(database) = Len(session)

\* C20 (amended): the same with food names compared without regard to the
\* case of their letters.
C20_FoodReuseByNameKey ==
    (session # <<>> /\ session[1].op = "process_food_entry" /\ AllSuccessful)
    => /\ \A i \in DOMAIN session :
              session[i].outcome.is_new_food
                  = (\A j \in 1..(i - 1) : NameKey(j) # NameKey(i))
       /\ \A i, j \in DOMAIN session :
              NameKey(i) = NameKey(j)
              => session[i].outcome.food_id = session[j].outcome.food_id
       /\ get_foods_count(database)
              = Cardinality({NameKey(i) : i \in DOMAIN session})
       /\ get_log_count(database) = Len(session)

\* C20 witness: chicken, rice, then chicken again under a name in small
\* letters: the third call reuses food_1, two foods and three log entries.
C20_Witness ==
    /\ Len(session) = 3
    /\ session[1].op = "process_food_entry"
    /\ AllSuccessful
    /\ NameOf(1) = MOCK_FOODS[1].food_data.food_name
    /\ NameOf(2) = MOCK_FOODS[2].food_data.food_name
    /\ NameOf(3) = lower(NameOf(1)) /\ NameOf(3) # NameOf(1)
    /\ session[1].outcome.is_new_food /\ session[2].outcome.is_new_food
    /\ ~session[3].outcome.is_new_food
    /\ session[1].outcome.food_id = "food_1"
    /\ session[3].outcome.food_id = "food_1"
    /\ get_foods_count(database) = 2
    /\ get_log_count(database) = 3

----------------------------------------------------------------------------
(* Failures of the collaborators of FoodLoggerCore.                        *)

\* The call just made is a process_food_entry.
EntryCall == call.op = "process_food_entry"

\* Its analyzer returned no food data.
AnalyzerFailed ==
    EntryCall /\ call.analysis.kind = "return" /\ IsNone(call.analysis.val)

\* C21: when the analyzer returns no food data, process_food_entry returns
\* success False with the error 'Failed to analyze food description',
\* leaves food_data, nutrition and food_id unset, calls no operation of the
\* database and leaves the database as it was.
C21_AnalyzerFailure ==
    [][AnalyzerFailed'
       => /\ result'.kind = "return"
          /\ ~result'.val.success
          /\ result'.val.error = "Failed to analyze food description"
          /\ IsNone(result'.val.food_data)
          /\ IsNone(result'.val.nutrition)
          /\ result'.val.food_id = NoFoodId
          /\ call'.database_calls = <<>>
          /\ database' = database]_vars

\* C21 witness: the analyzer returns None on a core that has a food saved
\* and whose find_food would raise if it were called.
C21_Witness ==
    /\ AnalyzerFailed
    /\ call.failing = {"find_food"}
    /\ get_foods_count(database) = 1
    /\ ~result.val.success
    /\ call.database_calls = <<>>

\* A database operation that raises was called.
DatabaseRaised ==
    EntryCall
    /\ \E i \in DOMAIN call.database_calls :
           call.database_calls[i] \in call.failing

\* The step is a call in which the nutrition calculation was reached and
\* raised.
CalculationRaised ==
    /\ EntryCall' /\ call'.analysis.kind = "return" /\ ~AnalyzerFailed'
    /\ call'.database_calls # <<>>
    /\ \A i \in DOMAIN call'.database_calls :
           call'.database_calls[i] \in {"find_food", "save_food"}
           => call'.database_calls[i] \notin call'.failing
    /\ \E existing_food \in {find_food(database,
                                       call'.analysis.val.food_name)} :
           calculate_nutrition(IF existing_food.found
                               THEN existing_food.food_data
                               ELSE call'.analysis.val,
                               call'.food_description).kind = "raise"

\* C22: process_food_entry always returns a result; when the analyzer, a
\* database operation or the nutrition calculation raises, the result has
\* success False and the exception's message as its error; success True is
\* returned only when log_consumption was the last operation called, did
\* not raise, and the log has the new entry.
C22_ExceptionContainment ==
    [][EntryCall'
       => /\ result'.kind = "return"
          /\ call'.analysis.kind = "raise"
             => /\ ~result'.val.success
                /\ result'.val.error = call'.analysis.exc
          /\ DatabaseRaised'
             => /\ ~result'.val.success
                /\ result'.val.error = DatabaseError
          /\ CalculationRaised
             => /\ ~result'.val.success
                /\ result'.val.error = "float division by zero"
          /\ result'.val.success
             => /\ call'.database_calls # <<>>
                /\ call'.database_calls[Len(call'.database_calls)]
                       = "log_consumption"
                /\ "log_consumption" \notin call'.failing
                /\ get_log_count(database') = get_log_count(database) + 1
                /\ result'.val.error = ""]_vars

\* C22 witness: log_consumption raises after the food was looked up and
\* saved, and the call returns the failure.
C22_Witness ==
    /\ DatabaseRaised
    /\ call.database_calls = <<"find_food", "save_food", "log_consumption">>
    /\ result.kind = "return"
    /\ ~result.val.success
    /\ result.val.error = DatabaseError

\* C27: a process_food_entry call that returns success False leaves the
\* database as it was before the call: no food saved, no entry logged.
C27_FailureLeavesDatabase ==
    [][(EntryCall' /\ ~result'.val.success) => database' = database]_vars

----------------------------------------------------------------------------
(* NutritionCalculator.calculate_nutrition.                                *)

\* The call just made is a calculate_nutrition.
CalcCall == call.op = "calculate_nutrition"

\* C23: calculate_nutrition returns one serving with the food's own values
\* for a description without an amount, and for a description with an amount
\* and a unit the ratio to_grams(amount, unit) / serving_size_grams rounded
\* to 2 decimals as servings and each nutrient times that ratio rounded to 1
\* decimal.
C23_CalculateNutrition ==
    CalcCall
    => \E amount_info \in {extract_amount_and_unit(call.consumed_description)} :
           /\ result.kind = "return"
           /\ ~amount_info.found
              => /\ result.val.servings = Num(1)
                 /\ result.val.actual_grams = call.food_data.serving_size_grams
                 /\ result.val.calories = call.food_data.calories_per_serving
                 /\ result.val.protein_g = call.food_data.protein_g
                 /\ result.val.carbs_g = call.food_data.carbs_g
                 /\ result.val.fat_g = call.food_data.fat_g
                 /\ result.val.fiber_g = call.food_data.fiber_g
           /\ amount_info.found
              => \E ratio \in {Div(to_grams(amount_info.amount,
                                            amount_info.unit),
                                   call.food_data.serving_size_grams)} :
                     /\ result.val.servings = round(ratio, 2)
                     /\ result.val.calories
                            = round(Mul(call.food_data.calories_per_serving,
                                        ratio), 1)
                     /\ result.val.protein_g
                            = round(Mul(call.food_data.protein_g, ratio), 1)
                     /\ result.val.carbs_g
                            = round(Mul(call.food_data.carbs_g, ratio), 1)
                     /\ result.val.fat_g
                            = round(Mul(call.food_data.fat_g, ratio), 1)
                     /\ result.val.fiber_g
                            = round(Mul(call.food_data.fiber_g, ratio), 1)

----------------------------------------------------------------------------
(* process_meal and its writers (tests/unit/test_service.py).              *)

\* The call just made is a process_meal that names an output method, with
\* an analyzer whose answer analyze_meal turns into an analysis.
MealCallWithMethod ==
    /\ call.op = "process_meal"
    /\ "output_method" \in DOMAIN call.kwargs
    /\ analyze_meal(call.response).kind = "return"

\* The class of the writer an output method selects.
SelectedWriter(output_method) ==
    IF output_method = "csv" THEN "CsvOutputWriter" ELSE "SheetsOutputWriter"

\* C24: for a successful analysis, process_meal calls the analyzer exactly
\* once with the given description and hands its result exactly once to
\* the writer selected by output_method, and to no other writer.
C24_WriterSelection ==
    MealCallWithMethod
    => /\ result.kind = "return"
       /\ call.analyzer_calls = <<call.food_description>>
       /\ call.writer_calls
              = <<[writer |-> SelectedWriter(call.kwargs.output_method),
                   result |-> result.val]>>

----------------------------------------------------------------------------
(* The consumption log of the CsvOutputWriter (test_output_writer.py).     *)

\* The step is a call that runs CsvOutputWriter.write_log.
LogWritten == call'.op \in {"csv_write_log", "csv_process"}

\* The foods of the result handed to the call of the step.
LoggedFoods == call'.result.analysis.processed_foods

\* C25: food_log.csv is absent or one header row followed by data rows;
\* a write_log call keeps every row the file had, puts the header first on
\* a file without rows, and appends one row per food of its result, in the
\* order of the foods, so that a call on a fresh file leaves len(foods) + 1
\* rows.
C25_AppendOnlyLog ==
    [][/\ sink'.log_file # <<>>
          => /\ Head(sink'.log_file) = LOG_HEADER
             /\ \A i \in 2..Len(sink'.log_file) :
                    sink'.log_file[i] # LOG_HEADER
       /\ SubSeq(sink'.log_file, 1, Len(sink.log_file)) = sink.log_file
       /\ ~LogWritten => sink'.log_file = sink.log_file
       /\ LogWritten
          => \E before \in {IF sink.log_file = <<>> THEN <<LOG_HEADER>>
                            ELSE sink.log_file} :
                 /\ result'.kind = "return"
                 /\ Len(sink'.log_file) = Len(before) + Len(LoggedFoods)
                 /\ SubSeq(sink'.log_file, 1, Len(before)) = before
                 /\ \A i \in DOMAIN LoggedFoods :
                        LET row == sink'.log_file[Len(before) + i]
                        IN  /\ Len(row) = Len(LOG_HEADER)
                            /\ row[1] = call'.result.timestamp.date
                            /\ row[2] = LoggedFoods[i].food_name
                            /\ row[3] = LoggedFoods[i].consumed.size.unit]_vars

\* C25 witness: a write_log call with two foods on a file that held the
\* header and one row: four rows, the two new ones last, in food order.
C25_Witness ==
    /\ call.op = "csv_write_log"
    /\ Len(call.result.analysis.processed_foods) = 2
    /\ Len(sink.log_file) = 4
    /\ sink.log_file[1] = LOG_HEADER
    /\ sink.log_file[2][2] = "Brown rice"
    /\ sink.log_file[3][2] = call.result.analysis.processed_foods[1].food_name
    /\ sink.log_file[4][2] = call.result.analysis.processed_foods[2].food_name
    /\ sink.log_file[3][2] # sink.log_file[4][2]

----------------------------------------------------------------------------
(* MockFoodDatabase (tests/unit/test_core.py, TestMockFoodDatabase).       *)

\* The save_food calls before call i of the session whose food has the
\* name, letter case apart.
SavesBefore(i, food_name) ==
    {j \in 1..(i - 1) :
        /\ session[j].op = "save_food"
        /\ lower(session[j].food_data.food_name) = lower(food_name)}

\* C26: find_food returns None for a name no food was saved under; after a
\* save_food it returns the id and the food of the last save_food whose food
\* has the name, letter case apart.
C26_Lookup ==
    \A i \in DOMAIN session :
        session[i].op = "find_food"
        => LET saves == SavesBefore(i, session[i].food_name)
           IN  IF saves = {} THEN ~session[i].outcome.found
               ELSE LET last == CHOOSE j \in saves : \A k \in saves : k <= j
                    IN  /\ session[i].outcome.found
                        /\ session[i].outcome.food_id = session[last].outcome
                        /\ session[i].outcome.food_data
                               = session[last].food_data

\* C26 witness: 'Test Food' saved, then 'TEST FOOD' saved, then
\* 'test food' looked up: the second id and the second food.
C26_Witness ==
    /\ Len(session) = 3
    /\ session[1].op = "save_food" /\ session[2].op = "save_food"
    /\ session[3].op = "find_food"
    /\ session[1].food_data.calories_per_serving = Num(200)
    /\ session[2].food_data.calories_per_serving = Num(100)
    /\ session[3].food_name = lower(session[1].food_data.food_name)
    /\ session[3].food_name # session[1].food_data.food_name
    /\ session[3].food_name # session[2].food_data.food_name
    /\ session[3].outcome.found
    /\ session[3].outcome.food_id = "food_2"
    /\ session[3].outcome.food_data = session[2].food_data

\* The calls of the session made with the operation, in call order.
CallsOf(op) == SelectSeq(session, LAMBDA c : c.op = op)

\* The session is one of calls made on the database directly.
DatabaseSession ==
    \A i \in DOMAIN session :
        session[i].op \in {"find_food", "save_food", "log_consumption"}

\* C29: on a MockFoodDatabase every id save_food returns differs from the
\* ids it returned before, every id in the name index is a key of the foods
\* table, the foods count is the number of save_food calls, and the log is
\* the entries of the log_consumption calls in call order.
C29_DatabaseConsistency ==
    DatabaseSession
    => /\ \A i, j \in DOMAIN CallsOf("save_food") :
              i # j => CallsOf("save_food")[i].outcome
                           # CallsOf("save_food")[j].outcome
       /\ \A name \in DOMAIN database.food_name_to_id :
              database.food_name_to_id[name] \in DOMAIN database.foods
       /\ get_foods_count(database) = Len(CallsOf("save_food"))
       /\ get_log_count(database) = Len(CallsOf("log_consumption"))
       /\ database.consumption_log
              = [i \in DOMAIN CallsOf("log_consumption") |->
                    CallsOf("log_consumption")[i].entry]

\* C29 witness: two foods saved under names that differ only in case, then
\* two different entries logged: two ids, two foods, one name in the index,
\* the log in call order.
C29_Witness ==
    /\ Len(session) = 4
    /\ session[1].op = "save_food" /\ session[2].op = "save_food"
    /\ session[3].op = "log_consumption" /\ session[4].op = "log_consumption"
    /\ session[1].outcome = "food_1" /\ session[2].outcome = "food_2"
    /\ lower(session[1].food_data.food_name)
           = lower(session[2].food_data.food_name)
    /\ session[3].entry # session[4].entry
    /\ get_foods_count(database) = 2
    /\ Cardinality(DOMAIN database.food_name_to_id) = 1
    /\ database.consumption_log = <<session[3].entry, session[4].entry>>

----------------------------------------------------------------------------
(* Order of the foods of an aggregation.                                   *)

\* The food is the one built from the record.
BuiltFrom(food, r) ==
    /\ Included(r)
    /\ food.food_name = r["food_name"]
    /\ food.standard_serving = r["standard_serving"]
    /\ food.user_consumed = r["user_consumed"]
    /\ food.confidence_score = r["confidence_score"]
    /\ food.source_notes = r["source_notes"]

\* The foods are built from records of the list taken in the order of the
\* list, one food for each included record, the records passed over being
\* dropped ones.
RECURSIVE InOrderOf(_, _)
InOrderOf(foods, raw_foods) ==
    IF raw_foods = <<>> THEN foods = <<>>
    ELSE IF Included(Head(raw_foods))
    THEN /\ foods # <<>>
         /\ BuiltFrom(Head(foods), Head(raw_foods))
         /\ InOrderOf(Tail(foods), Tail(raw_foods))
    ELSE InOrderOf(foods, Tail(raw_foods))

\* C28: the foods of an aggregation are never more than the raw records,
\* and they are the surviving records in the order of the input, one food
\* per surviving record: dropping a record does not reorder the others.
C28_OrderPreserved ==
    (Aggregation /\ result.kind = "return")
    => /\ Len(Foods) <= Len(RawList)
       /\ InOrderOf(Foods, RawList)

\* C28 witness: three records, the one in the middle dropped: the two foods
\* are the first and the third record, in that order, and differ.
C28_Witness ==
    /\ Aggregation /\ result.kind = "return"
    /\ Len(RawList) = 3 /\ Len(Foods) = 2
    /\ ~Included(RawList[2])
    /\ BuiltFrom(Foods[1], RawList[1])
    /\ BuiltFrom(Foods[2], RawList[3])
    /\ Foods[1].food_name # Foods[2].food_name

----------------------------------------------------------------------------
(* Serialization of a MealAnalysis (models.py).                            *)

\* The call just made serialized an analysis and read it back.
RoundTrip == call.op = "to_dict_from_dict"

\* C30: MealAnalysis.from_dict(m.to_dict()) is m, with or without an
\* alternate size and a food_id on its foods; and the totals of an analysis
\* read by from_dict are the totals of the dictionary, fields it does not
\* hold being 0, whatever the foods sum to.
C30_RoundTrip ==
    /\ RoundTrip
       => /\ result.kind = "return"
          /\ result.val = call.analysis
    /\ (RoundTrip \/ Deserialized)
       => \A f \in NutritionalInfoFields :
              result.val.totals[f] = Get(call.data["totals"], f, Num(0))

\* C30 witness: an analysis of two foods, one without alternate size and
\* food_id, one with both, and totals that are not the sums, read back.
C30_Witness ==
    /\ RoundTrip /\ result.kind = "return"
    /\ Len(call.analysis.processed_foods) = 2
    /\ \E i, j \in DOMAIN call.analysis.processed_foods :
           /\ IsNone(call.analysis.processed_foods[i].standard_serving.alt_size)
           /\ call.analysis.processed_foods[i].food_id = NoFoodId
           /\ ~IsNone(call.analysis.processed_foods[j].standard_serving.alt_size)
           /\ call.analysis.processed_foods[j].food_id = "F1"
           /\ call.data["processed_foods"][j]["standard_serving"]["alt_size"]
                  = Size(Num(1), "cup")
    /\ call.analysis.totals["calories"] = Num(999)
    /\ result.val.totals["calories"] = Num(999)

=============================================================================
